---- MODULE Spec2Model ----
(***************************************************************************)
(* BroSplit AI backend (src/server.js and its earlier variants             *)
(* src/unnamed/part_000, part_001): the nutrition target calculator, the   *)
(* workout plan text parser, and the nutrition request flow with its JSON  *)
(* rescue / repair pipeline.                                               *)
(*                                                                         *)
(* The specifications share the variables:                                 *)
(*   SpecCalc   the calculator applied to validated profiles               *)
(*   SpecParse  the workout text parser, line by line, in its 3 variants   *)
(*   Spec       one HTTP request through /api/nutrition or                 *)
(*              /api/generate-plan, one action per segment between awaits  *)
(*   SpecPdf    one PDF generation, page by page, then the page numbering  *)
(*   SpecTwo    two /api/nutrition requests whose handlers interleave at   *)
(*              their awaits                                               *)
(*   SpecEmail  one request to /api/email-plan                             *)
(***************************************************************************)
EXTENDS Integers, Sequences, FiniteSets, TLC

VARIABLES
    \* ---- calculator (SpecCalc)
    cpc,        \* "idle" | "input" | "done"
    profile,    \* validated NutritionInput fields the calculator reads
    targets,    \* result of macroTargets, plus the intermediate rmr / tdee
    \* ---- parser (SpecParse)
    ppc,        \* "idle" | "call" | "scan" | "done" | "threw"
    pvariant,   \* which copy of the parser runs
    planText,   \* the argument: [present, toks]
    lines,      \* the split, trimmed lines
    idx,        \* index of the next line of the for-loop
    weeks,      \* the result array
    currentWeek,\* 0 (null) or index into weeks
    currentDay, \* <<0,0>> (null) or <<week index, day index>> of the referenced day
    lastLine,   \* what the last loop iteration saw and did: [kind, colon, hadDay, pushed, delta]
    \* ---- one HTTP request (Spec)
    pc,         \* "idle" | "request" | "retrieve" | "items" | "completion" | "repair" | "done"
    deployed,   \* which copy of the server handles the request
    priceEnv,   \* "set" | "unset": STRIPE_PRICE_BASE and STRIPE_PRICE_PRO in the environment
    endpoint,   \* "nutrition" | "generate-plan"
    req,        \* the request body: [valid, sessionId, meals_per_day]
    session,    \* the checkout session the id names: [exists, payment_status, planType]
    calls,      \* completion calls made so far
    log,        \* the steps of the handler that ran, in order
    completion, \* the first completion received: [text, members]
    planJson,   \* what the parse step produced
    finalPlan,  \* the handler's finalPlan
    response,   \* what was sent: [status, error, raw, targets, plan]
    \* ---- one PDF generation (SpecPdf)
    kpc,        \* "idle" | "render" | "ended"
    generator,  \* which PDF generator runs
    pdf,        \* the PDFDocument: [bufferPages, pageBuffer, pageBufferStart, written]
    pending,    \* doc.addPage() calls the render code has still to make
    spills,     \* pages added so far because a text ran over the bottom margin
    \* ---- a second request in flight (SpecTwo)
    other,      \* the locals of the handler that is suspended at an await
    \* ---- one request to POST /api/email-plan (SpecEmail)
    epc,        \* "idle" | "request" | "buffer" | "send" | "done"
    evariant,   \* which copy of the server handles the request
    ereq,       \* the request body: [email, plan, nutrition, merge]
    ecause,     \* what made the handler fail: "none" | "missing" | "render" | "buffer" | "send"
    eresp,      \* what was sent: [status, error]
    \* ---- the weeks loop of the workout renderer (SpecParse)
    drawn,      \* the weeks drawn, in the order of their pages
    \* ---- one document being drawn (SpecRender)
    render      \* [pc, generator, logo, weeks, plan, page, sections]

calcVars  == <<cpc, profile, targets>>
parseVars == <<ppc, pvariant, planText, lines, idx, weeks, currentWeek, currentDay, lastLine>>
flowVars  == <<pc, deployed, priceEnv, endpoint, req, session, calls, log, completion, planJson,
               finalPlan, response>>
pdfVars   == <<kpc, generator, pdf, pending, spills>>
twoVars   == <<other>>
mailVars  == <<epc, evariant, ereq, ecause, eresp>>
drawVars  == <<drawn, render>>
auxVars   == <<pdfVars, twoVars, mailVars, drawVars>>

(***************************************************************************)
(* Nutrition input + math (server.js:277-309).                             *)
(* Non-integer quantities are kept exact as scaled integers:               *)
(*   weight_kg = w2 / 2, height_cm = h2 / 2 (half units of the z.number()  *)
(*   fields), rmr = mifflin / 8, tdee = tdee320 / 320.                     *)
(* Math.round(n / d) is floor(n/d + 1/2).                                  *)
(***************************************************************************)
MathRound(n, d) == (2 * n + d) \div (2 * d)

\* NutritionInput ranges (zod schema)
MinAge == 13
MaxAge == 90
MinHeight == 120
MaxHeight == 230
MinWeight == 35
MaxWeight == 250
MinMeals == 3
MaxMeals == 6
DefaultMeals == 4

\* Grid steps over the validated ranges (in years and in half units)
AgeStep == 11
HeightStep == 55
WeightStep == 43

Sexes == {"male", "female"}
Activities == {"sedentary", "light", "moderate", "very_active"}
Goals == {"cut", "recomp", "gain"}
Loads == {"light", "moderate", "high"}

Ages    == {a \in MinAge..MaxAge : (a - MinAge) % AgeStep = 0} \cup {30, MaxAge}
Heights2 == {h \in 2*MinHeight..2*MaxHeight : (h - 2*MinHeight) % HeightStep = 0}
              \cup {360, 2*MaxHeight}
Weights2 == {w \in 2*MinWeight..2*MaxWeight : (w - 2*MinWeight) % WeightStep = 0}
              \cup {160, 2*MaxWeight}

Profiles == [sex : Sexes, age : Ages, h2 : Heights2, w2 : Weights2,
             activity : Activities, goal : Goals, training_load : Loads]

NoProfile == [sex |-> "male", age |-> 0, h2 |-> 0, w2 |-> 0,
              activity |-> "sedentary", goal |-> "cut", training_load |-> "light"]

\* AF table, in 1/40
AF(activity) ==
    CASE activity = "sedentary"   -> 48
      [] activity = "light"       -> 55
      [] activity = "moderate"    -> 62
      [] activity = "very_active" -> 69

\* the mutant: the sex constant of the male branch taken from the female one
mifflinWrongSex(p) ==
    40 * p.w2 + 25 * p.h2 - 40 * p.age + 8 * (-161)

\* 8 * (10*weight_kg + 6.25*height_cm - 5*age + (male ? 5 : -161))
mifflin(p) ==
    40 * p.w2 + 25 * p.h2 - 40 * p.age + 8 * (IF p.sex = "male" THEN 5 ELSE -161)

\* rmr * AF[activity], in 1/320
tdee320(rmr8, activity) == rmr8 * AF(activity)

calorieGoal(rmr8, activity, goal) ==
    LET adj == IF goal = "cut" THEN 80 ELSE IF goal = "gain" THEN 112 ELSE 95
    IN  MathRound(tdee320(rmr8, activity) * adj, 32000)

bandLow(training_load) ==
    IF training_load = "high" THEN 8 ELSE IF training_load = "moderate" THEN 5 ELSE 3

minCarb(w2, training_load) == MathRound(bandLow(training_load) * w2, 2)

carbsFor(kcal, protein_g, fat_g) == MathRound(kcal - (protein_g * 4 + fat_g * 9), 4)

\* the mutant: the carb-floor correction of line 305 left out
macroTargetsNoCorrection(w2, kcal, goal, training_load) ==
    LET protein_g == MathRound((IF goal = "cut" THEN 22 ELSE 18) * w2, 20)
        fat_g     == MathRound(kcal * 30, 900)
    IN  [kcal |-> kcal, protein_g |-> protein_g,
         carbs_g |-> carbsFor(kcal, protein_g, fat_g), fat_g |-> fat_g,
         fiber_g |-> MathRound(kcal * 14, 1000), sodium_mg_cap |-> 2300]

\* the mutant: a second pass, fat at 15% when the carbs are still below the floor
macroTargetsSecondPass(w2, kcal, goal, training_load) ==
    LET protein_g == MathRound((IF goal = "cut" THEN 22 ELSE 18) * w2, 20)
        fat30     == MathRound(kcal * 30, 900)
        fat22     == MathRound(kcal * 22, 900)
        fat15     == MathRound(kcal * 15, 900)
        fat_g     == IF carbsFor(kcal, protein_g, fat30) >= minCarb(w2, training_load) THEN fat30
                     ELSE IF carbsFor(kcal, protein_g, fat22) >= minCarb(w2, training_load)
                     THEN fat22 ELSE fat15
    IN  [kcal |-> kcal, protein_g |-> protein_g,
         carbs_g |-> carbsFor(kcal, protein_g, fat_g), fat_g |-> fat_g,
         fiber_g |-> MathRound(kcal * 14, 1000), sodium_mg_cap |-> 2300]

macroTargets(w2, kcal, goal, training_load) ==
    LET protein_g == MathRound((IF goal = "cut" THEN 22 ELSE 18) * w2, 20)
        fat30     == MathRound(kcal * 30, 900)
        carbs30   == carbsFor(kcal, protein_g, fat30)
        corrected == carbs30 < minCarb(w2, training_load)
        fat_g     == IF corrected THEN MathRound(kcal * 22, 900) ELSE fat30
        carbs_g   == IF corrected THEN carbsFor(kcal, protein_g, fat_g) ELSE carbs30
    IN  [kcal |-> kcal, protein_g |-> protein_g, carbs_g |-> carbs_g, fat_g |-> fat_g,
         fiber_g |-> MathRound(kcal * 14, 1000), sodium_mg_cap |-> 2300]

\* lines 508-510 of the handler: rmr, kcal, targets (rmr and tdee kept for inspection)
computeTargets(p) ==
    LET rmr8 == mifflin(p)
        kcal == calorieGoal(rmr8, p.activity, p.goal)
    IN  [rmr8 |-> rmr8, tdee320 |-> tdee320(rmr8, p.activity),
         t |-> macroTargets(p.w2, kcal, p.goal, p.training_load)]

NoTargets == [rmr8 |-> 0, tdee320 |-> 0,
              t |-> [kcal |-> 0, protein_g |-> 0, carbs_g |-> 0, fat_g |-> 0,
                     fiber_g |-> 0, sodium_mg_cap |-> 0]]

CalcIdle == cpc = "idle" /\ profile = NoProfile /\ targets = NoTargets

CalcInit == cpc = "input" /\ profile \in Profiles /\ targets = NoTargets

Compute ==
    /\ cpc = "input"
    /\ targets' = computeTargets(profile)
    /\ cpc' = "done"
    /\ UNCHANGED profile
    /\ UNCHANGED parseVars
    /\ UNCHANGED flowVars
    /\ UNCHANGED auxVars

\* C7 (as stated): every computed carbs_g is at least floor(band_low * weight_kg).
C7_CarbFloorAlways ==
    cpc = "done" =>
        targets.t.carbs_g >= (bandLow(profile.training_load) * profile.w2) \div 2

\* C7 (amended): carbs_g is at least round(band_low * weight_kg) unless the single
\* correction ran, and then fat_g is round(0.22*kcal/9) and carbs_g is the remainder
\* round((kcal - 4*protein_g - 9*fat_g)/4), whatever its size.
C7_CarbFloorOrCorrected ==
    cpc = "done" =>
        LET t == targets.t IN
        \/ t.carbs_g >= minCarb(profile.w2, profile.training_load)
        \/ /\ t.fat_g = MathRound(t.kcal * 22, 900)
           /\ t.carbs_g = carbsFor(t.kcal, t.protein_g, t.fat_g)

\* the correction ran and the result is still below the floor
C7_Witness ==
    /\ cpc = "done"
    /\ targets.t.carbs_g < (bandLow(profile.training_load) * profile.w2) \div 2
    /\ targets.t.fat_g = MathRound(targets.t.kcal * 22, 900)
    /\ targets.t.fat_g # MathRound(targets.t.kcal * 30, 900)

\* the quantities of the correction rule, from the returned kcal and protein_g
Fat30(t) == (2 * (t.kcal * 30) + 900) \div 1800
Fat22(t) == (2 * (t.kcal * 22) + 900) \div 1800
CarbsWith(t, fat) == (2 * (t.kcal - 4 * t.protein_g - 9 * fat) + 4) \div 8
CarbFloor(p) ==
    (2 * ((IF p.training_load = "high" THEN 8
           ELSE IF p.training_load = "moderate" THEN 5 ELSE 3) * p.w2) + 2) \div 4

\* C19: the carb correction is single-pass.  fat_g is round(0.30*kcal/9) when the
\* carbs left by that fat reach the floor round(band_low*weight_kg), and
\* round(0.22*kcal/9) otherwise; carbs_g is round((kcal - 4*protein_g - 9*fat_g)/4)
\* with the final fat_g, also when that is still below the floor.
C19_SinglePassCorrection ==
    cpc = "done" =>
        /\ targets.t.fat_g = IF CarbsWith(targets.t, Fat30(targets.t)) >= CarbFloor(profile)
                             THEN Fat30(targets.t) ELSE Fat22(targets.t)
        /\ targets.t.carbs_g = CarbsWith(targets.t, targets.t.fat_g)

\* the correction ran, the carbs are still below the floor and nothing more was done
C19_Witness ==
    /\ cpc = "done"
    /\ CarbsWith(targets.t, Fat30(targets.t)) < CarbFloor(profile)
    /\ targets.t.fat_g = Fat22(targets.t) /\ Fat22(targets.t) < Fat30(targets.t)
    /\ targets.t.carbs_g = CarbsWith(targets.t, Fat22(targets.t))
    /\ targets.t.carbs_g < CarbFloor(profile)

ScenarioProfile ==
    [sex |-> "male", age |-> 30, h2 |-> 360, w2 |-> 160,
     activity |-> "moderate", goal |-> "gain", training_load |-> "high"]

\* C8 (as stated): the scenario profile gives RMR 1740, TEE 2697, kcal 3021,
\* protein_g 144 and carbs_g >= 640.
C8_ScenarioAsStated ==
    (cpc = "done" /\ profile = ScenarioProfile) =>
        /\ targets.rmr8 = 8 * 1740
        /\ targets.tdee320 = 320 * 2697
        /\ targets.t.kcal = 3021
        /\ targets.t.protein_g = 144
        /\ targets.t.carbs_g >= 640

\* C8 (amended): the scenario profile gives RMR 1780, TEE 2759, kcal 3090,
\* protein_g 144, fat_g 76 after the correction and carbs_g 458 (below 640).
C8_ScenarioComputed ==
    (cpc = "done" /\ profile = ScenarioProfile) =>
        /\ targets.rmr8 = 8 * 1780
        /\ targets.tdee320 = 320 * 2759
        /\ targets.t.kcal = 3090
        /\ targets.t.protein_g = 144
        /\ targets.t.fat_g = 76
        /\ targets.t.carbs_g = 458

C8_Witness == cpc = "done" /\ profile = ScenarioProfile /\ targets.t.kcal > 0

\* the targets other than carbs_g are never negative
C28_OthersNonNegative ==
    cpc = "done" =>
        /\ targets.t.kcal >= 0 /\ targets.t.protein_g >= 0
        /\ targets.t.fat_g >= 0 /\ targets.t.fiber_g >= 0

C28_OthersWitness ==
    /\ cpc = "done" /\ profile.w2 = 2 * MaxWeight /\ profile.goal = "cut"
    /\ targets.t.protein_g = 550 /\ targets.t.carbs_g < 0

\* C28: for every profile the input validation accepts, kcal, protein_g, carbs_g,
\* fat_g and fiber_g returned by the calculator are each at least 0.
C28_TargetsNonNegative ==
    cpc = "done" =>
        /\ targets.t.kcal >= 0 /\ targets.t.protein_g >= 0 /\ targets.t.carbs_g >= 0
        /\ targets.t.fat_g >= 0 /\ targets.t.fiber_g >= 0

(***************************************************************************)
(* Workout plan text parser: parseWorkoutPlanText (server.js:80-92) and    *)
(* its inline copies in generateEnhancedPDF (part_000:164-181) and         *)
(* generateWorkoutPDF (part_001:213-223).                                  *)
(* A text is a sequence of tokens: "NL" and "CR" are the line terminator   *)
(* characters, " " and "TAB" runs of blanks, "**" the markdown emphasis    *)
(* marker, ":" a colon, "0".."9" digits, anything else a run of other      *)
(* characters with no colon, blank or newline inside it that matters.      *)
(***************************************************************************)
Variants == {"server", "part_000", "part_001"}

WsTokens  == {" ", "TAB", "CR"}
WeekWords == {"Week", "week", "WEEK"}
DayWords  == {"Day", "day", "DAY"}
DigitTokens == {"0", "1", "2", "3", "4", "5", "6", "7", "8", "9"}

DigitVal(t) ==
    CASE t = "0" -> 0 [] t = "1" -> 1 [] t = "2" -> 2 [] t = "3" -> 3 [] t = "4" -> 4
      [] t = "5" -> 5 [] t = "6" -> 6 [] t = "7" -> 7 [] t = "8" -> 8 [] t = "9" -> 9

SetMin(S) == CHOOSE x \in S : \A y \in S : x <= y
SetMax(S) == CHOOSE x \in S : \A y \in S : x >= y

\* .replace(/\*\*/g, '')
StripBold(toks) == SelectSeq(toks, LAMBDA t : t # "**")

\* .split(/\r?\n/)
RECURSIVE SplitLines(_)
SplitLines(toks) ==
    LET nl == {i \in 1..Len(toks) : toks[i] = "NL"} IN
    IF nl = {} THEN <<toks>>
    ELSE LET i    == SetMin(nl)
             head == SubSeq(toks, 1, i - 1)
             line == IF Len(head) > 0 /\ head[Len(head)] = "CR"
                     THEN SubSeq(head, 1, Len(head) - 1) ELSE head
         IN  <<line>> \o SplitLines(SubSeq(toks, i + 1, Len(toks)))

\* l => l.trim()
Trim(l) ==
    LET keep == {i \in 1..Len(l) : l[i] \notin WsTokens} IN
    IF keep = {} THEN <<>> ELSE SubSeq(l, SetMin(keep), SetMax(keep))

toLines(toks) ==
    LET raw == SplitLines(StripBold(toks)) IN [i \in 1..Len(raw) |-> Trim(raw[i])]

\* first index after the blanks that follow the first token
AfterBlanks(line) == SetMin({i \in 2..Len(line) : line[i] \notin WsTokens} \cup {Len(line) + 1})

RECURSIVE DigitsValue(_, _, _)
DigitsValue(line, i, acc) ==
    IF i > Len(line) \/ line[i] \notin DigitTokens THEN acc
    ELSE DigitsValue(line, i + 1, 10 * acc + DigitVal(line[i]))

\* line.match(/^Week\s+(\d+)/i): [hit, number]
WeekMatch(line) ==
    LET j == AfterBlanks(line) IN
    IF /\ Len(line) >= 1 /\ line[1] \in WeekWords
       /\ j > 2 /\ j <= Len(line) /\ line[j] \in DigitTokens
    THEN [hit |-> TRUE, number |-> DigitsValue(line, j, 0)]
    ELSE [hit |-> FALSE, number |-> 0]

\* line.match(/^Day\s+\d+/i)
DayMatch(line) ==
    LET j == AfterBlanks(line) IN
    /\ Len(line) >= 1 /\ line[1] \in DayWords
    /\ j > 2 /\ j <= Len(line) /\ line[j] \in DigitTokens

\* /:/.test(line)
HasColon(line) == \E i \in 1..Len(line) : line[i] = ":"

NullDay == <<0, 0>>

\* the mutant: every line of an open day is pushed, colon or not
scanLineNoColonTest(st, line) ==
    IF line = <<>> THEN st
    ELSE IF WeekMatch(line).hit
    THEN [st EXCEPT !.weeks = Append(@, [number |-> WeekMatch(line).number, days |-> <<>>]),
                    !.cw = Len(st.weeks) + 1]
    ELSE IF DayMatch(line) /\ st.cw # 0
    THEN [st EXCEPT !.weeks[st.cw].days = Append(@, [name |-> line, ex |-> <<>>]),
                    !.cd = <<st.cw, Len(st.weeks[st.cw].days) + 1>>]
    ELSE IF st.cd # NullDay
    THEN [st EXCEPT !.weeks[st.cd[1]].days[st.cd[2]].ex = Append(@, line)]
    ELSE st

\* the mutant: the day is named by what follows the word Day, not by the whole line
scanLineBareDayName(st, line) ==
    IF line = <<>> THEN st
    ELSE IF WeekMatch(line).hit
    THEN [st EXCEPT !.weeks = Append(@, [number |-> WeekMatch(line).number, days |-> <<>>]),
                    !.cw = Len(st.weeks) + 1]
    ELSE IF DayMatch(line) /\ st.cw # 0
    THEN [st EXCEPT !.weeks[st.cw].days = Append(@, [name |-> Tail(line), ex |-> <<>>]),
                    !.cd = <<st.cw, Len(st.weeks[st.cw].days) + 1>>]
    ELSE IF st.cd # NullDay /\ HasColon(line)
    THEN [st EXCEPT !.weeks[st.cd[1]].days[st.cd[2]].ex = Append(@, line)]
    ELSE st

\* the mutant: a Day header with no week open opens a week of its own
scanLineDayOpensWeek(st, line) ==
    IF line = <<>> THEN st
    ELSE IF WeekMatch(line).hit
    THEN [st EXCEPT !.weeks = Append(@, [number |-> WeekMatch(line).number, days |-> <<>>]),
                    !.cw = Len(st.weeks) + 1]
    ELSE IF DayMatch(line) /\ st.cw = 0
    THEN [st EXCEPT !.weeks = Append(@, [number |-> 0, days |-> <<[name |-> line, ex |-> <<>>]>>]),
                    !.cw = Len(st.weeks) + 1,
                    !.cd = <<Len(st.weeks) + 1, 1>>]
    ELSE IF DayMatch(line)
    THEN [st EXCEPT !.weeks[st.cw].days = Append(@, [name |-> line, ex |-> <<>>]),
                    !.cd = <<st.cw, Len(st.weeks[st.cw].days) + 1>>]
    ELSE IF st.cd # NullDay /\ HasColon(line)
    THEN [st EXCEPT !.weeks[st.cd[1]].days[st.cd[2]].ex = Append(@, line)]
    ELSE st

\* one iteration of the for-loop over the lines (server.js:84-89); st = [weeks, cw, cd]
\* where cw and cd stand for the references currentWeek and currentDay
scanLine(st, line) ==
    IF line = <<>> THEN st
    ELSE IF WeekMatch(line).hit
    THEN [st EXCEPT !.weeks = Append(@, [number |-> WeekMatch(line).number, days |-> <<>>]),
                    !.cw = Len(st.weeks) + 1]
    ELSE IF DayMatch(line) /\ st.cw # 0
    THEN [st EXCEPT !.weeks[st.cw].days = Append(@, [name |-> line, ex |-> <<>>]),
                    !.cd = <<st.cw, Len(st.weeks[st.cw].days) + 1>>]
    ELSE IF st.cd # NullDay /\ HasColon(line)
    THEN [st EXCEPT !.weeks[st.cd[1]].days[st.cd[2]].ex = Append(@, line)]
    ELSE st

\* the mutant: the guard of the later copies missing, as in part_000:165
textOrEmptyUnguarded(variant, pt) ==
    IF pt.present THEN [ok |-> TRUE, toks |-> pt.toks] ELSE [ok |-> FALSE, toks |-> <<>>]

\* (planText || '') in server.js:81 and part_001:214; planText itself in part_000:165,
\* where .replace of undefined throws a TypeError
textOrEmpty(variant, pt) ==
    IF pt.present THEN [ok |-> TRUE, toks |-> pt.toks]
    ELSE IF variant = "part_000" THEN [ok |-> FALSE, toks |-> <<>>]
    ELSE [ok |-> TRUE, toks |-> <<>>]

RECURSIVE scanAll(_, _, _)
scanAll(st, ls, i) == IF i > Len(ls) THEN st ELSE scanAll(scanLine(st, ls[i]), ls, i + 1)

\* the whole function: [ok, weeks]; ok = FALSE when it throws
parseWorkoutPlanText(variant, pt) ==
    LET t == textOrEmpty(variant, pt) IN
    IF ~t.ok THEN [ok |-> FALSE, weeks |-> <<>>]
    ELSE [ok |-> TRUE,
          weeks |-> scanAll([weeks |-> <<>>, cw |-> 0, cd |-> NullDay], toLines(t.toks), 1).weeks]

\* ---- inputs
MaxLines == 4

LineSet ==
    { <<"Week", " ", "1">>,
      <<"**", "week", " ", "2", "**">>,
      <<"Day", " ", "1", ":", " ", "Push">>,
      <<" ", "Bench Press", ":", " ", "3x8">>,
      <<"Notes about form">>,
      <<>>,
      <<"Week", "1", ":">>,
      <<"WEEK", "TAB", "0", "3", " ", "- Deload", ":">> }

RECURSIVE JoinLines(_, _)
JoinLines(ls, eol) ==
    IF Len(ls) = 0 THEN <<>>
    ELSE IF Len(ls) = 1 THEN ls[1]
    ELSE ls[1] \o eol \o JoinLines(Tail(ls), eol)

ScenarioLines ==
    << <<"Week", " ", "1">>,
       <<"Day", " ", "1", " ", "- Push">>,
       <<"Bench Press", ":", " ", "3x8 @135lb">>,
       <<"Notes about form">>,
       <<"Day", " ", "2", " ", "- Pull">>,
       <<"Row", ":", " ", "3x10 @95lb">>,
       <<"Week", " ", "2">>,
       <<"Day", " ", "1", " ", "- Push">>,
       <<"OHP", ":", " ", "3x8 @65lb">> >>

ScenarioText == [present |-> TRUE, toks |-> JoinLines(ScenarioLines, <<"NL">>)]

\* seven Week headers, with a repeated and an out-of-order number, and a day without
\* exercises
SevenWeekLines ==
    << <<"Week", " ", "1">>, <<"Week", " ", "2">>, <<"Day", " ", "1", " ", "- Push">>,
       <<"Week", " ", "2">>, <<"Week", " ", "1">>, <<"WEEK", "TAB", "0", "3">>,
       <<"Week", " ", "5">>, <<"Week", " ", "7">> >>

SevenWeekText == [present |-> TRUE, toks |-> JoinLines(SevenWeekLines, <<"NL">>)]

Texts ==
    { [present |-> TRUE, toks |-> JoinLines(ls, eol)] :
        ls \in UNION {[1..n -> LineSet] : n \in 0..MaxLines},
        eol \in {<<"NL">>, <<"CR", "NL">>} }
    \cup {ScenarioText, SevenWeekText, [present |-> FALSE, toks |-> <<>>]}

NoLine == [kind |-> "none", colon |-> FALSE, hadDay |-> FALSE, pushed |-> FALSE, delta |-> 0]

ParseIdle ==
    /\ ppc = "idle" /\ pvariant = "server" /\ planText = [present |-> FALSE, toks |-> <<>>]
    /\ lines = <<>> /\ idx = 0 /\ weeks = <<>> /\ currentWeek = 0 /\ currentDay = NullDay
    /\ lastLine = NoLine

ParseInit ==
    /\ ppc = "call" /\ pvariant \in Variants /\ planText \in Texts
    /\ lines = <<>> /\ idx = 0 /\ weeks = <<>> /\ currentWeek = 0 /\ currentDay = NullDay
    /\ lastLine = NoLine

\* line 81-82: build the lines, or throw on a missing text
ParseStart ==
    /\ ppc = "call"
    /\ LET t == textOrEmpty(pvariant, planText) IN
       IF t.ok
       THEN /\ lines' = toLines(t.toks)
            /\ idx' = 1
            /\ ppc' = "scan"
       ELSE /\ ppc' = "threw"
            /\ UNCHANGED <<lines, idx>>
    /\ UNCHANGED <<pvariant, planText, weeks, currentWeek, currentDay, lastLine>>
    /\ UNCHANGED <<calcVars, flowVars, auxVars>>

TotalEx(ws) ==
    LET RECURSIVE sumW(_)
        sumD(ds) == LET RECURSIVE f(_)
                        f(i) == IF i > Len(ds) THEN 0 ELSE Len(ds[i].ex) + f(i + 1)
                    IN  f(1)
        sumW(i) == IF i > Len(ws) THEN 0 ELSE sumD(ws[i].days) + sumW(i + 1)
    IN  sumW(1)

ExOf(ws, cd) == ws[cd[1]].days[cd[2]].ex

\* lines 83-90: one iteration
ParseLine ==
    /\ ppc = "scan"
    /\ idx <= Len(lines)
    /\ LET line == lines[idx]
           st   == scanLine([weeks |-> weeks, cw |-> currentWeek, cd |-> currentDay], line)
       IN  /\ weeks' = st.weeks
           /\ currentWeek' = st.cw
           /\ currentDay' = st.cd
           /\ lastLine' =
                [kind   |-> IF line = <<>> THEN "blank"
                            ELSE IF WeekMatch(line).hit THEN "week"
                            ELSE IF DayMatch(line) THEN "day" ELSE "other",
                 colon  |-> HasColon(line),
                 hadDay |-> currentDay # NullDay,
                 pushed |-> /\ currentDay # NullDay
                            /\ ExOf(st.weeks, currentDay) = Append(ExOf(weeks, currentDay), line),
                 delta  |-> TotalEx(st.weeks) - TotalEx(weeks)]
    /\ idx' = idx + 1
    /\ UNCHANGED <<ppc, pvariant, planText, lines>>
    /\ UNCHANGED <<calcVars, flowVars, auxVars>>

\* line 91: return weeks
ParseReturn ==
    /\ ppc = "scan"
    /\ idx > Len(lines)
    /\ ppc' = "done"
    /\ UNCHANGED <<pvariant, planText, lines, idx, weeks, currentWeek, currentDay, lastLine>>
    /\ UNCHANGED <<calcVars, flowVars, auxVars>>

\* C9: the nine-line scenario parses to two weeks (week 1: two days with one
\* exercise each, the colon-free notes line left out; week 2: one day with one
\* exercise), and a line that is neither a Week nor a Day header is appended to the
\* open day exactly when it contains a colon (and to no day when none is open).
C9_ScenarioAndColonRule ==
    /\ (ppc = "done" /\ planText = ScenarioText) =>
          weeks = << [number |-> 1,
                      days |-> << [name |-> ScenarioLines[2], ex |-> <<ScenarioLines[3]>>],
                                  [name |-> ScenarioLines[5], ex |-> <<ScenarioLines[6]>>] >>],
                     [number |-> 2,
                      days |-> << [name |-> ScenarioLines[8], ex |-> <<ScenarioLines[9]>>] >>] >>
    /\ (lastLine.kind = "other" /\ lastLine.hadDay) =>
          /\ lastLine.pushed <=> lastLine.colon
          /\ lastLine.delta = (IF lastLine.colon THEN 1 ELSE 0)
    /\ (lastLine.kind = "other" /\ ~lastLine.hadDay) => lastLine.delta = 0

C9_Witness ==
    /\ ppc = "done" /\ planText = ScenarioText
    /\ Len(weeks) = 2 /\ Len(weeks[1].days[1].ex) = 1
    /\ lastLine.kind = "other" /\ lastLine.colon /\ lastLine.pushed

NoWeekLine(pt) ==
    LET ls == toLines(IF pt.present THEN pt.toks ELSE <<>>)
    IN  \A i \in 1..Len(ls) : ~WeekMatch(ls[i]).hit

\* C10: the parser never throws, in any of its three copies, and returns the empty
\* sequence whenever no line of the input starts with a Week header.
C10_ParserNeverFails ==
    /\ ppc # "threw"
    /\ (ppc = "done" /\ NoWeekLine(planText)) => weeks = <<>>

\* line k comes after a Week header with no Day header in between
AfterWeekHeader(k) ==
    \E j \in 1..(k - 1) :
        /\ WeekMatch(lines[j]).hit
        /\ \A m \in (j + 1)..(k - 1) : ~DayMatch(lines[m])

\* C20: a Week header closes the day in progress: after it no day is open, and a
\* colon line that comes after a Week header and before the next Day header is added
\* to no day of any week.
C20_WeekHeaderClosesDay ==
    (ppc \in {"scan", "done"} /\ idx > 1) =>
        /\ lastLine.kind = "week" => currentDay = NullDay
        /\ (lastLine.kind = "other" /\ AfterWeekHeader(idx - 1)) => lastLine.delta = 0

\* what the code does: a Week header leaves the day reference alone, so the colon
\* line goes to the day that was open before the header
C20_WeekHeaderKeepsDay ==
    (ppc \in {"scan", "done"} /\ idx > 1 /\ lastLine.kind = "week") =>
        /\ currentWeek = Len(weeks)
        /\ \/ currentDay = NullDay /\ \A w \in 1..(Len(weeks) - 1) : weeks[w].days = <<>>
           \/ currentDay # NullDay /\ currentDay[1] < currentWeek

\* the mutant: every parsed week is drawn
sliceWeeksAll(ws) == ws

\* parseWorkoutPlanText(planText).slice(0, 6) (server.js:113)
sliceWeeks(ws) == SubSeq(ws, 1, IF Len(ws) > 6 THEN 6 ELSE Len(ws))

\* the weeks loop of the renderer (server.js:113-123; part_000:184-195;
\* part_001:225-229): each week of the slice is drawn, then doc.addPage()
RenderWeeks ==
    /\ ppc = "done"
    /\ ppc' = "drawn"
    /\ drawn' = sliceWeeks(weeks)
    /\ UNCHANGED <<pvariant, planText, lines, idx, weeks, currentWeek, currentDay, lastLine>>
    /\ UNCHANGED <<calcVars, flowVars, pdfVars, twoVars, mailVars, render>>

\* the numbers of the Week header lines of the text, in source order
HeaderNumbers ==
    LET ks == {k \in 1..Len(lines) : WeekMatch(lines[k]).hit}
    IN  [i \in 1..Cardinality(ks) |->
            WeekMatch(lines[CHOOSE k \in ks : Cardinality({j \in ks : j <= k}) = i]).number]

\* C22: the parser returns one week per Week header line, in source order, nothing
\* sorted, merged or cut (more than 6 weeks, repeated and out-of-order numbers, days
\* without exercises are kept), and the renderer draws exactly the first
\* min(6, number of parsed weeks) of them, in that order.
C22_AllWeeksParsedSixDrawn ==
    /\ ppc \in {"done", "drawn"} => [i \in 1..Len(weeks) |-> weeks[i].number] = HeaderNumbers
    /\ ppc = "drawn" =>
          /\ Len(drawn) = (IF Len(HeaderNumbers) > 6 THEN 6 ELSE Len(HeaderNumbers))
          /\ \A i \in 1..Len(drawn) : drawn[i] = weeks[i]

C22_Witness ==
    /\ ppc = "drawn" /\ planText = SevenWeekText
    /\ [i \in 1..Len(weeks) |-> weeks[i].number] = <<1, 2, 2, 1, 3, 5, 7>>
    /\ weeks[2].days = <<[name |-> SevenWeekLines[3], ex |-> <<>>]>>
    /\ Len(drawn) = 6 /\ drawn[6].number = 5

\* the lines read so far that are Week headers, and the Day headers among them that
\* come after a Week header
WeekHeadersRead == {k \in 1..(idx - 1) : WeekMatch(lines[k]).hit}
DayHeadersAfterWeek ==
    {k \in 1..(idx - 1) : DayMatch(lines[k]) /\ \E j \in 1..(k - 1) : WeekMatch(lines[j]).hit}

RECURSIVE TotalDays(_)
TotalDays(ws) == IF ws = <<>> THEN 0 ELSE Len(Head(ws).days) + TotalDays(Tail(ws))

\* C21: a Day header before any Week header creates no day, the lines before the
\* first Week header contribute nothing, blank lines are skipped, and a Day header
\* after a Week header creates exactly one day, appended to the week opened last: at
\* every point of the scan the result has as many days as Day headers were read after
\* the first Week header.
C21_DaysAreDayHeadersAfterWeek ==
    (ppc \in {"scan", "done"} /\ idx >= 1) =>
        /\ WeekHeadersRead = {} => (weeks = <<>> /\ currentDay = NullDay)
        /\ TotalDays(weeks) = Cardinality(DayHeadersAfterWeek)
        /\ TotalEx(weeks) <= Cardinality({k \in 1..(idx - 1) : HasColon(lines[k])})
        /\ lastLine.kind = "blank" => lastLine.delta = 0
        /\ (lastLine.kind = "day" /\ WeekHeadersRead # {}) =>
              /\ currentDay = <<Len(weeks), Len(weeks[Len(weeks)].days)>>
              /\ weeks[Len(weeks)].days[Len(weeks[Len(weeks)].days)] =
                    [name |-> lines[idx - 1], ex |-> <<>>]

\* a text whose first line is a Day header, with a Week header, a Day header and a
\* blank line after it
C21_Witness ==
    /\ ppc = "done" /\ Len(lines) = 4
    /\ DayMatch(lines[1]) /\ WeekMatch(lines[2]).hit /\ DayMatch(lines[3]) /\ lines[4] = <<>>
    /\ Len(weeks) = 1 /\ TotalDays(weeks) = 1 /\ weeks[1].days[1].name = lines[3]

\* the decimal digits of a number, as String(n) writes them
RECURSIVE DigitsOf(_)
DigitsOf(n) ==
    LET d == <<"0", "1", "2", "3", "4", "5", "6", "7", "8", "9">>[(n % 10) + 1]
    IN  IF n < 10 THEN <<d>> ELSE Append(DigitsOf(n \div 10), d)

\* canonical text of a parsed structure: a "Week n" line per week, then each day's
\* name line, then each of its exercise lines
RECURSIVE DayLines(_)
DayLines(ds) ==
    IF ds = <<>> THEN <<>> ELSE <<Head(ds).name>> \o Head(ds).ex \o DayLines(Tail(ds))

RECURSIVE WeekLines(_)
WeekLines(ws) ==
    IF ws = <<>> THEN <<>>
    ELSE <<(<<"Week", " ">> \o DigitsOf(Head(ws).number))>> \o DayLines(Head(ws).days)
         \o WeekLines(Tail(ws))

CanonicalText(ws) == [present |-> TRUE, toks |-> JoinLines(WeekLines(ws), <<"NL">>)]

\* C11: parser round trip.  The structure the parser returns, written back in
\* canonical form and parsed again, is the same structure.
C11_RoundTrip ==
    ppc = "done" => parseWorkoutPlanText(pvariant, CanonicalText(weeks)).weeks = weeks

C11_Witness ==
    /\ ppc = "done" /\ Len(weeks) = 2
    /\ weeks[1].number = 3 /\ Len(weeks[1].days) = 1 /\ Len(weeks[1].days[1].ex) = 1
    /\ CanonicalText(weeks) # planText
    /\ parseWorkoutPlanText(pvariant, CanonicalText(weeks)).weeks = weeks

(***************************************************************************)
(* Nutrition JSON guards / repair (server.js:311-368).                     *)
(*                                                                         *)
(* A completion text is a sequence of tokens: "{" and "}" braces,          *)
(* "MEMBERS" the members of the plan object the provider wrote, "null" the *)
(* JSON literal, "FENCE_JSON" and "FENCE" the markers ```json and ```,     *)
(* "PROSE" any other text, " " and "NL" white space.                       *)
(*                                                                         *)
(* A parsed plan is a record                                               *)
(*   [t, day_plans, days, summary, grocery_list, batch_prep]               *)
(* t = "null" is the JSON value null; an array-valued field is             *)
(* [t |-> "arr", v |-> <<...>>], a missing or falsy one [t |-> "absent"],  *)
(* a truthy non-array one [t |-> "str"].  A day entry is                   *)
(* [t, day, total_kcal, meals] with t = "null" for a null entry.           *)
(***************************************************************************)
JsonWs == {" ", "NL"}

Absent   == [t |-> "absent", v |-> <<>>]
NonArray == [t |-> "str", v |-> <<>>]
Arr(seq) == [t |-> "arr", v |-> seq]

NoSummary == [t |-> "absent", calories |-> 0, kcal |-> 0, meals_per_day |-> 0]

NullPlan ==
    [t |-> "null", day_plans |-> Absent, days |-> Absent, summary |-> NoSummary,
     grocery_list |-> Absent, batch_prep |-> Absent]

\* {} : an object with no members
EmptyPlan == [NullPlan EXCEPT !.t = "obj"]

\* JSON.parse(text) for the texts above: [ok, kind]; kind "plan" stands for the
\* object whose members the token MEMBERS carries
JsonParse(toks) ==
    LET core == SelectSeq(toks, LAMBDA x : x \notin JsonWs) IN
    IF core = <<"{", "MEMBERS", "}">> THEN [ok |-> TRUE, kind |-> "plan"]
    ELSE IF core = <<"{", "}">>       THEN [ok |-> TRUE, kind |-> "empty"]
    ELSE IF core = <<"null">>         THEN [ok |-> TRUE, kind |-> "null"]
    ELSE [ok |-> FALSE, kind |-> "none"]

\* the value a parse result denotes, given the object the provider meant
ValueOf(kind, members) ==
    IF kind = "plan" THEN members ELSE IF kind = "empty" THEN EmptyPlan ELSE NullPlan

\* the mutant: rescueJson parses the text as it is, fences and prose included
rescueJsonNoSlice(toks) == JsonParse(toks)

\* rescueJson (server.js:312-319): [ok, kind]; ok = FALSE is the returned null
rescueJson(toks) ==
    LET cleaned == SelectSeq(toks, LAMBDA x : x \notin {"FENCE_JSON", "FENCE"})
        opens   == {i \in 1..Len(cleaned) : cleaned[i] = "{"}
        closes  == {i \in 1..Len(cleaned) : cleaned[i] = "}"}
    IN  IF opens # {} /\ closes # {}
        THEN LET r == JsonParse(SubSeq(cleaned, SetMin(opens), SetMax(closes)))
             IN  IF r.ok /\ r.kind # "null" THEN r ELSE [ok |-> FALSE, kind |-> "none"]
        ELSE [ok |-> FALSE, kind |-> "none"]

\* lines 527-530: try JSON.parse(raw), catch -> rescueJson(raw); then the test
\* !planJson.  [ok, kind]; ok = FALSE means planJson is falsy
parsePlan(toks) ==
    LET strict == JsonParse(toks) IN
    IF strict.ok
    THEN IF strict.kind = "null" THEN [ok |-> FALSE, kind |-> "null"] ELSE strict
    ELSE rescueJson(toks)

\* the parser of the earlier variant (part_001:164-170): JSON.parse only, and any
\* parsed value, null included, is returned
parsePlanStrict(toks) == JsonParse(toks)

\* plan?.day_plans || plan?.days || []
daysOf(plan) ==
    IF plan.t = "null" THEN Arr(<<>>)
    ELSE IF plan.day_plans.t # "absent" THEN plan.day_plans
    ELSE IF plan.days.t # "absent" THEN plan.days
    ELSE Arr(<<>>)

\* !Array.isArray(d.meals) || d.meals.length < mealsPerDay
Deficient(d, mealsPerDay) == d.meals.t # "arr" \/ Len(d.meals.v) < mealsPerDay

\* needsRepair (server.js:320-324): "true", "false", or "throw" when days.some
\* reaches a null entry (d.meals of null)
needsRepair(plan, mealsPerDay) ==
    LET days == daysOf(plan) IN
    IF days.t # "arr" \/ Len(days.v) < 7 THEN "true"
    ELSE LET stop == {i \in 1..Len(days.v) :
                        days.v[i].t = "null" \/ Deficient(days.v[i], mealsPerDay)}
         IN  IF stop = {} THEN "false"
             ELSE IF days.v[SetMin(stop)].t = "null" THEN "throw" ELSE "true"

PlaceholderMeal == [name |-> "Meal", ingredients |-> <<>>]

\* lines 352-356: make meals an array and pad it with copies of its last meal
padMeals(d, mealsPerDay) ==
    LET have == IF d.meals.t = "arr" THEN d.meals.v ELSE <<>>
        src  == IF Len(have) > 0 THEN have[Len(have)] ELSE PlaceholderMeal
        more == IF Len(have) < mealsPerDay THEN mealsPerDay - Len(have) ELSE 0
    IN  [d EXCEPT !.meals = Arr(have \o [i \in 1..more |-> src])]

\* the mutant: the clone keeps the meal order of its base
rotateNone(ms) == ms

\* clone.meals.push(clone.meals.shift())
rotate(ms) == IF Len(ms) > 1 THEN Tail(ms) \o <<Head(ms)>> ELSE ms

\* lines 358-364: clone the last day until there are 7
RECURSIVE cloneDays(_)
cloneDays(days) ==
    IF Len(days) >= 7 THEN days
    ELSE LET base  == days[Len(days)]
             clone == [base EXCEPT !.day = Len(days) + 1, !.meals.v = rotate(@)]
         IN  cloneDays(Append(days, clone))

\* expandProgrammatically (server.js:345-368): [ok, plan]; ok = FALSE when the
\* forEach over the days reaches a null entry (d.meals of null)
expandProgrammatically(plan, mealsPerDay) ==
    LET days0 == IF plan.day_plans.t = "arr" THEN plan.day_plans.v
                 ELSE IF plan.days.t = "arr" THEN plan.days.v ELSE <<>>
        kcal0 == IF plan.summary.calories # 0 THEN plan.summary.calories
                 ELSE plan.summary.kcal
        days1 == IF days0 = <<>>
                 THEN << [t |-> "obj", day |-> 1, total_kcal |-> kcal0, meals |-> Arr(<<>>)] >>
                 ELSE days0
    IN  IF \E i \in 1..Len(days1) : days1[i].t = "null"
        THEN [ok |-> FALSE, plan |-> plan]
        ELSE LET days2 == [i \in 1..Len(days1) |-> padMeals(days1[i], mealsPerDay)]
             IN  [ok |-> TRUE,
                  plan |-> [plan EXCEPT !.day_plans = Arr(cloneDays(days2)),
                                        !.days = Absent]]

(***************************************************************************)
(* Batch-prep enrichment (server.js:370-492).  A string is a sequence of   *)
(* one-character strings, so that includes, toLowerCase, replace and trim  *)
(* are computed on the characters.                                         *)
(***************************************************************************)
UpperCase == <<"A","B","C","D","E","F","G","H","I","J","K","L","M",
               "N","O","P","Q","R","S","T","U","V","W","X","Y","Z">>
LowerCase == <<"a","b","c","d","e","f","g","h","i","j","k","l","m",
               "n","o","p","q","r","s","t","u","v","w","x","y","z">>

toLowerChar(c) ==
    IF \E i \in 1..26 : UpperCase[i] = c
    THEN LowerCase[CHOOSE i \in 1..26 : UpperCase[i] = c] ELSE c

\* norm(s): String(s || '').toLowerCase()
norm(str) == [i \in 1..Len(str) |-> toLowerChar(str[i])]

\* n.includes(k)
Includes(n, k) ==
    \E i \in 0..(Len(n) - Len(k)) : SubSeq(n, i + 1, i + Len(k)) = k

\* str.trim()
TrimStr(str) ==
    LET keep == {i \in 1..Len(str) : str[i] # " "} IN
    IF keep = {} THEN <<>> ELSE SubSeq(str, SetMin(keep), SetMax(keep))

\* n.replace(/[-–]\s*\d+.*$/, '').trim(): cut at the first dash that is followed,
\* after optional blanks, by a digit ("--" is the en dash)
stripQty(n) ==
    LET cut == {i \in 1..Len(n) :
                  /\ n[i] \in {"-", "--"}
                  /\ \E j \in (i + 1)..Len(n) :
                        /\ n[j] \in DigitTokens
                        /\ \A m \in (i + 1)..(j - 1) : n[m] = " "}
    IN  TrimStr(IF cut = {} THEN n ELSE SubSeq(n, 1, SetMin(cut) - 1))

\* Array.from(new Set(seq)): first occurrences, in order
Dedupe(seq) ==
    LET keep == {i \in 1..Len(seq) : \A j \in 1..(i - 1) : seq[j] # seq[i]}
    IN  [k \in 1..Cardinality(keep) |->
            seq[CHOOSE i \in keep : Cardinality({j \in keep : j <= i}) = k]]

\* arr.slice(0, n)
Take(seq, n) == SubSeq(seq, 1, IF Len(seq) < n THEN Len(seq) ELSE n)

\* prettyJoin (server.js:372-376)
RECURSIVE commaJoin(_)
commaJoin(arr) ==
    IF Len(arr) = 0 THEN <<>>
    ELSE IF Len(arr) = 1 THEN arr[1]
    ELSE arr[1] \o <<",", " ">> \o commaJoin(Tail(arr))

prettyJoin(arr) ==
    IF Len(arr) = 0 THEN <<>>
    ELSE IF Len(arr) = 1 THEN arr[1]
    ELSE commaJoin(SubSeq(arr, 1, Len(arr) - 1)) \o <<" ", "&", " ">> \o arr[Len(arr)]

\* KW (server.js:377-400)
KW_proteins ==
    { <<"c", "h", "i", "c", "k", "e", "n">>,
      <<"b", "e", "e", "f">>,
      <<"t", "u", "r", "k", "e", "y">>,
      <<"t", "u", "n", "a">>,
      <<"s", "a", "l", "m", "o", "n">>,
      <<"s", "h", "r", "i", "m", "p">>,
      <<"c", "o", "d">>,
      <<"e", "g", "g">>,
      <<"e", "g", "g", "s">>,
      <<"t", "o", "f", "u">>,
      <<"t", "e", "m", "p", "e", "h">>,
      <<"p", "o", "r", "k">>,
      <<"y", "o", "g", "u", "r", "t">>,
      <<"c", "o", "t", "t", "a", "g", "e", " ", "c", "h", "e", "e", "s", "e">>,
      <<"b", "e", "e", "f", " ", "s", "t", "r", "i", "p", "s">>,
      <<"l", "e", "n", "t", "i", "l">>,
      <<"c", "h", "i", "c", "k", "p", "e", "a">>,
      <<"b", "l", "a", "c", "k", " ", "b", "e", "a", "n">>,
      <<"b", "e", "a", "n", "s">> }

KW_carbs ==
    { <<"r", "i", "c", "e">>,
      <<"b", "r", "o", "w", "n", " ", "r", "i", "c", "e">>,
      <<"q", "u", "i", "n", "o", "a">>,
      <<"o", "a", "t", "s">>,
      <<"r", "o", "l", "l", "e", "d", " ", "o", "a", "t", "s">>,
      <<"p", "a", "s", "t", "a">>,
      <<"n", "o", "o", "d", "l", "e">>,
      <<"p", "o", "t", "a", "t", "o">>,
      <<"s", "w", "e", "e", "t", " ", "p", "o", "t", "a", "t", "o">>,
      <<"b", "r", "e", "a", "d">>,
      <<"w", "h", "o", "l", "e", " ", "g", "r", "a", "i", "n", " ", "b", "r", "e", "a", "d">>,
      <<"w", "r", "a", "p">>,
      <<"t", "o", "r", "t", "i", "l", "l", "a">> }

KW_veg ==
    { <<"b", "r", "o", "c", "c", "o", "l", "i">>,
      <<"s", "p", "i", "n", "a", "c", "h">>,
      <<"m", "i", "x", "e", "d", " ", "g", "r", "e", "e", "n", "s">>,
      <<"g", "r", "e", "e", "n", "s">>,
      <<"a", "s", "p", "a", "r", "a", "g", "u", "s">>,
      <<"g", "r", "e", "e", "n", " ", "b", "e", "a", "n", "s">>,
      <<"m", "i", "x", "e", "d", " ", "v", "e", "g", "e", "t", "a", "b", "l", "e", "s">>,
      <<"z", "u", "c", "c", "h", "i", "n", "i">>,
      <<"b", "e", "l", "l", " ", "p", "e", "p", "p", "e", "r">>,
      <<"p", "e", "p", "p", "e", "r", "s">>,
      <<"l", "e", "t", "t", "u", "c", "e">>,
      <<"s", "a", "l", "a", "d">>,
      <<"c", "a", "r", "r", "o", "t">>,
      <<"c", "e", "l", "e", "r", "y">>,
      <<"c", "o", "r", "n">> }

KW_breakfast ==
    { <<"o", "a", "t", "s">>,
      <<"r", "o", "l", "l", "e", "d", " ", "o", "a", "t", "s">>,
      <<"y", "o", "g", "u", "r", "t">>,
      <<"a", "l", "m", "o", "n", "d", " ", "m", "i", "l", "k">>,
      <<"m", "i", "l", "k">>,
      <<"b", "e", "r", "r", "i", "e", "s">>,
      <<"b", "a", "n", "a", "n", "a">>,
      <<"p", "r", "o", "t", "e", "i", "n", " ", "p", "o", "w", "d", "e", "r">>,
      <<"h", "o", "n", "e", "y">>,
      <<"t", "o", "a", "s", "t">> }

KW_sauces ==
    { <<"o", "l", "i", "v", "e", " ", "o", "i", "l">>,
      <<"s", "o", "y", " ", "s", "a", "u", "c", "e">>,
      <<"c", "u", "r", "r", "y">>,
      <<"t", "o", "m", "a", "t", "o", " ", "s", "a", "u", "c", "e">>,
      <<"s", "a", "l", "s", "a">>,
      <<"t", "a", "h", "i", "n", "i">>,
      <<"p", "e", "a", "n", "u", "t", " ", "b", "u", "t", "t", "e", "r">>,
      <<"a", "l", "m", "o", "n", "d", " ", "b", "u", "t", "t", "e", "r">> }

S_egg    == <<"e", "g", "g">>
S_potato == <<"p", "o", "t", "a", "t", "o">>
S_green  == <<"g", "r", "e", "e", "n">>
S_spinach == <<"s", "p", "i", "n", "a", "c", "h">>
S_salad  == <<"s", "a", "l", "a", "d">>
S_lettuce == <<"l", "e", "t", "t", "u", "c", "e">>
Sunday   == <<"S", "u", "n", "d", "a", "y">>
Thursday == <<"T", "h", "u", "r", "s", "d", "a", "y">>

\* a grocery entry or an ingredient: [t, name]; t = "null" for a null entry
Item(name) == [t |-> "obj", name |-> name]
NullItem   == [t |-> "null", name |-> <<>>]

\* the names of the ingredients of a list of meals, then of a list of days
RECURSIVE namesOfMeals(_)
namesOfMeals(ms) ==
    IF ms = <<>> THEN <<>>
    ELSE [k \in 1..Len(Head(ms).ingredients) |-> norm(Head(ms).ingredients[k].name)]
         \o namesOfMeals(Tail(ms))

RECURSIVE namesOfDays(_)
namesOfDays(ds) ==
    IF ds = <<>> THEN <<>> ELSE namesOfMeals(Head(ds).meals.v) \o namesOfDays(Tail(ds))

\* names.filter(Boolean)
NonEmpty(n) == n # <<>>

\* extractItemNames (server.js:401-413): [ok, names]; ok = FALSE when a null entry
\* is dereferenced or days.forEach is called on a non-array
extractItemNames(plan) ==
    LET gl == plan.grocery_list IN
    IF gl.t = "arr" /\ Len(gl.v) > 0
    THEN IF \E i \in 1..Len(gl.v) : gl.v[i].t = "null"
         THEN [ok |-> FALSE, names |-> <<>>]
         ELSE [ok |-> TRUE,
               names |-> Dedupe(SelectSeq([i \in 1..Len(gl.v) |-> norm(gl.v[i].name)],
                                          NonEmpty))]
    ELSE LET days == daysOf(plan) IN
         IF days.t # "arr" THEN [ok |-> FALSE, names |-> <<>>]
         ELSE IF \E i \in 1..Len(days.v) :
                    \/ days.v[i].t = "null"
                    \/ \E j \in 1..Len(days.v[i].meals.v) :
                          \E k \in 1..Len(days.v[i].meals.v[j].ingredients) :
                             days.v[i].meals.v[j].ingredients[k].t = "null"
         THEN [ok |-> FALSE, names |-> <<>>]
         ELSE [ok |-> TRUE, names |-> Dedupe(SelectSeq(namesOfDays(days.v), NonEmpty))]

\* filterByKeywords (server.js:414-421)
filterByKeywords(names, keywords) ==
    LET hits == SelectSeq(names, LAMBDA n : \E k \in keywords : Includes(n, k))
    IN  Dedupe([i \in 1..Len(hits) |-> stripQty(hits[i])])

\* a step: the template of the sentence, the names joined into it, and the number
\* written into it (mealsPerDay), 0 when the template has none
Step(tpl, arg, n) == [tpl |-> tpl, arg |-> arg, n |-> n]

OptStep(cond, step) == IF cond THEN <<step>> ELSE <<>>

\* line 454: the leafy vegetables
isLeafy(v) ==
    \/ Includes(v, S_green) \/ Includes(v, S_spinach)
    \/ Includes(v, S_salad) \/ Includes(v, S_lettuce)

isEgg(x)    == Includes(x, S_egg)
isPotato(x) == Includes(x, S_potato)
notEgg(x)    == ~isEgg(x)
notPotato(x) == ~isPotato(x)
notLeafy(x)  == ~isLeafy(x)

\* the foods the fixed wording of a step names (server.js:440, 462): the word forms
\* of the food, none for a step whose wording names no food of its own
fixedFood(tpl) ==
    CASE tpl = "boil_eggs"            -> { <<"e", "g", "g">>, <<"e", "g", "g", "s">> }
      [] tpl = "overnight_oats_packs" -> { <<"o", "a", "t">>, <<"o", "a", "t", "s">> }
      [] OTHER                        -> {}

\* lines 430-475: the two step lists, from the five filtered name lists
buildSteps(proteins, carbs, veg, brk, sauces, mealsPerDay) ==
    << [day |-> Sunday,
        steps |-> Arr(
            OptStep(Len(SelectSeq(proteins, notEgg)) > 0,
                    Step("bulk_proteins", prettyJoin(SelectSeq(proteins, notEgg)), 0))
         \o OptStep(Len(SelectSeq(proteins, isEgg)) > 0, Step("boil_eggs", <<>>, 0))
         \o OptStep(Len(SelectSeq(carbs, notPotato)) > 0,
                    Step("batch_carbs", prettyJoin(SelectSeq(carbs, notPotato)), 0))
         \o OptStep(Len(SelectSeq(carbs, isPotato)) > 0,
                    Step("roast", prettyJoin(SelectSeq(carbs, isPotato)), 0))
         \o OptStep(Len(SelectSeq(veg, notLeafy)) > 0,
                    Step("sturdy_veg", prettyJoin(SelectSeq(veg, notLeafy)), 0))
         \o OptStep(Len(SelectSeq(veg, isLeafy)) > 0,
                    Step("leafy_greens", prettyJoin(SelectSeq(veg, isLeafy)), 0))
         \o OptStep(Len(brk) > 0,
                    Step(IF mealsPerDay >= 4 THEN "overnight_oats_packs" ELSE "breakfast_packs",
                         prettyJoin(Take(brk, 5)), 0))
         \o OptStep(Len(sauces) > 0, Step("sauces", prettyJoin(Take(sauces, 4)), 0))
         \o <<Step("label", <<>>, mealsPerDay)>>)],
       [day |-> Thursday,
        steps |-> Arr(
            OptStep(Len(proteins) > 0, Step("topup_proteins", prettyJoin(proteins), 0))
         \o OptStep(Len(carbs) > 0, Step("topup_carbs", prettyJoin(Take(carbs, 3)), 0))
         \o OptStep(Len(veg) > 0, Step("refresh_veg", <<>>, 0))
         \o <<Step("inventory", <<>>, 0)>>)] >>

\* lines 424-428: the five filters
buildBatchPrep(names, mealsPerDay) ==
    buildSteps(filterByKeywords(names, KW_proteins), filterByKeywords(names, KW_carbs),
               filterByKeywords(names, KW_veg), filterByKeywords(names, KW_breakfast),
               filterByKeywords(names, KW_sauces), mealsPerDay)

buildFromNames(e, mealsPerDay) ==
    [ok |-> e.ok, batch |-> IF e.ok THEN buildBatchPrep(e.names, mealsPerDay) ELSE <<>>]

\* buildBatchPrepFromPlan (server.js:422-476): [ok, batch]; ok = FALSE when
\* extractItemNames throws
buildBatchPrepFromPlan(plan, mealsPerDay) == buildFromNames(extractItemNames(plan), mealsPerDay)

RECURSIVE countSteps(_)
countSteps(cur) ==
    IF cur = <<>> THEN 0 ELSE Len(Head(cur).steps.v) + countSteps(Tail(cur))

RECURSIVE allSteps(_)
allSteps(cur) == IF cur = <<>> THEN <<>> ELSE Head(cur).steps.v \o allSteps(Tail(cur))

\* line 487: push the steps not in have onto the slot; [ok, cur], ok = FALSE when
\* the slot has no steps array to push onto
pushFresh(cur, slot, fresh) ==
    IF Len(fresh) = 0 THEN [ok |-> TRUE, cur |-> cur]
    ELSE IF cur[slot].steps.t # "arr" THEN [ok |-> FALSE, cur |-> cur]
    ELSE [ok |-> TRUE, cur |-> [cur EXCEPT ![slot].steps.v = @ \o fresh]]

\* line 486: the first block of the same day, or a new block at the end
slotFor(cur, hit, g, fresh) ==
    IF hit = {} THEN pushFresh(Append(cur, [day |-> g.day, steps |-> Arr(<<>>)]),
                               Len(cur) + 1, fresh)
    ELSE pushFresh(cur, SetMin(hit), fresh)

\* the mutant: every generated step is pushed, whether current has it or not
mergeDayAll(cur, g, have) ==
    slotFor(cur, {i \in 1..Len(cur) : norm(cur[i].day) = norm(g.day)}, g, g.steps.v)

\* generated.forEach (server.js:485-488): merge one generated day into current
mergeDay(cur, g, have) ==
    slotFor(cur, {i \in 1..Len(cur) : norm(cur[i].day) = norm(g.day)}, g,
            SelectSeq(g.steps.v, LAMBDA x : x \notin have))

mergeSecond(plan, m1, g2, have) ==
    IF ~m1.ok THEN [ok |-> FALSE, plan |-> plan]
    ELSE IF ~mergeDay(m1.cur, g2, have).ok THEN [ok |-> FALSE, plan |-> plan]
    ELSE [ok |-> TRUE, plan |-> [plan EXCEPT !.batch_prep = Arr(mergeDay(m1.cur, g2, have).cur)]]

stepSet(steps) == {steps[i] : i \in 1..Len(steps)}

\* lines 479-490, given current and the generated blocks
ensureWith(plan, current, gen) ==
    IF ~gen.ok THEN [ok |-> FALSE, plan |-> plan]
    ELSE IF Len(current) < 2 \/ countSteps(current) < 4
    THEN [ok |-> TRUE, plan |-> [plan EXCEPT !.batch_prep = Arr(gen.batch)]]
    ELSE mergeSecond(plan, mergeDay(current, gen.batch[1], stepSet(allSteps(current))),
                     gen.batch[2], stepSet(allSteps(current)))

\* ensureBatchPrep (server.js:477-492): [ok, plan]; ok = FALSE when it throws
ensureBatchPrep(plan, mealsPerDay) ==
    IF plan.t = "null" THEN [ok |-> FALSE, plan |-> plan]
    ELSE ensureWith(plan, IF plan.batch_prep.t = "arr" THEN plan.batch_prep.v ELSE <<>>,
                    buildBatchPrepFromPlan(plan, mealsPerDay))

(***************************************************************************)
(* What the completion provider can send back (the inputs of the request   *)
(* flow).                                                                  *)
(***************************************************************************)
F_chicken  == <<"C", "h", "i", "c", "k", "e", "n", " ", "B", "r", "e", "a", "s", "t">>
F_rice     == <<"R", "i", "c", "e">>
F_eggs     == <<"E", "g", "g", "s">>
F_spinach  == <<"S", "p", "i", "n", "a", "c", "h">>
F_potato   == <<"S", "w", "e", "e", "t", " ", "P", "o", "t", "a", "t", "o", " ", "-", " ", "2", " ", "k", "g">>
F_oil      == <<"O", "l", "i", "v", "e", " ", "O", "i", "l">>
F_oats     == <<"O", "a", "t", "s">>

F_brownrice == <<"B", "r", "o", "w", "n", " ", "R", "i", "c", "e">>
F_broccoli == <<"B", "r", "o", "c", "c", "o", "l", "i">>
F_eggplant == <<"E", "g", "g", "p", "l", "a", "n", "t">>

Foods == <<F_chicken, F_rice, F_eggs, F_spinach, F_potato, F_oil, F_oats>>

MealNames == <<"Breakfast", "Lunch", "Dinner", "Snack", "Shake", "Supper", "Brunch">>

\* the i-th meal of a day: one ingredient, taken in turn from Foods
Meal(i) == [name |-> MealNames[i], ingredients |-> <<Item(Foods[((i - 1) % Len(Foods)) + 1])>>]

NullDayEntry == [t |-> "null", day |-> 0, total_kcal |-> 0, meals |-> Absent]

\* a day entry with k meals
DayWith(n, k) ==
    [t |-> "obj", day |-> n, total_kcal |-> 2000, meals |-> Arr([i \in 1..k |-> Meal(i)])]

DayKinds == {"null", "nomeals", "empty", "short", "full", "over"}

\* a day entry of the given kind, the kinds being relative to mealsPerDay
DayOf(kind, n, mealsPerDay) ==
    CASE kind = "null"    -> NullDayEntry
      [] kind = "nomeals" -> [DayWith(n, 0) EXCEPT !.meals = Absent]
      [] kind = "empty"   -> DayWith(n, 0)
      [] kind = "short"   -> DayWith(n, mealsPerDay - 1)
      [] kind = "full"    -> DayWith(n, mealsPerDay)
      [] kind = "over"    -> DayWith(n, mealsPerDay + 1)

\* longest day array the provider sends
MaxDays == 8

DayCounts == {0, 1, 3} \cup 6..MaxDays

\* day arrays: every day of one base kind, but for at most one special entry in
\* the first or the last place
DayArrays(mealsPerDay) ==
    { [i \in 1..n |-> DayOf(IF i = sp.at THEN sp.kind ELSE base, i, mealsPerDay)] :
        n \in DayCounts, base \in {"short", "full", "over"},
        sp \in { [at |-> a, kind |-> k] :
                    a \in {0, 1}, k \in {"null", "nomeals", "empty", "short"} } }
    \cup
    { [i \in 1..n |-> DayOf(IF i = n THEN k ELSE base, i, mealsPerDay)] :
        n \in DayCounts \ {0}, base \in {"short", "full", "over"},
        k \in {"null", "nomeals", "empty", "short"} }

PlanOf(day_plans, days) ==
    [t |-> "obj", day_plans |-> day_plans, days |-> days, summary |-> NoSummary,
     grocery_list |-> Absent, batch_prep |-> Absent]

\* day_plans [{day 1, meals [M1]}]
OneMealPlan == PlanOf(Arr(<<DayWith(1, 1)>>), Absent)

FullWeek(mealsPerDay) == [i \in 1..7 |-> DayOf("full", i, mealsPerDay)]

\* day_plans with the one day the provider numbered 3
MidWeekPlan(mealsPerDay) == PlanOf(Arr(<<DayOf("full", 3, mealsPerDay)>>), Absent)

Summaries ==
    { NoSummary,
      [t |-> "obj", calories |-> 2000, kcal |-> 0, meals_per_day |-> 0],
      [t |-> "obj", calories |-> 0, kcal |-> 1800, meals_per_day |-> 3],
      [t |-> "str", calories |-> 0, kcal |-> 0, meals_per_day |-> 0] }

\* grocery items chicken breast, brown rice, broccoli, eggs
ScenarioGrocery ==
    Arr(<<Item(F_chicken), Item(F_brownrice), Item(F_broccoli), Item(F_eggs)>>)

GroceryLists ==
    { Absent, NonArray,
      Arr(<<Item(F_chicken), Item(F_potato), Item(F_eggs), Item(F_chicken)>>),
      Arr(<<Item(F_rice), NullItem>>),
      ScenarioGrocery,
      Arr(<<Item(F_eggplant), Item(F_rice)>>) }

\* batch_prep blocks the provider wrote itself; "prep" steps are free text
OwnStep(n) == Step("own", <<>>, n)

BatchPreps ==
    { Absent,
      Arr(<< [day |-> Sunday, steps |-> Arr(<<OwnStep(1)>>)] >>),
      Arr(<< [day |-> norm(Sunday), steps |-> Arr(<<OwnStep(1), OwnStep(2), Step("inventory", <<>>, 0)>>)],
             [day |-> <<"W", "e", "d">>, steps |-> Arr(<<OwnStep(3)>>)] >>),
      Arr(<< [day |-> Sunday, steps |-> Arr(<<OwnStep(1), OwnStep(2), OwnStep(3), OwnStep(4)>>)],
             [day |-> Thursday, steps |-> Absent] >>) }

\* the plan objects a completion can carry, for a request with mealsPerDay
UpstreamPlans(mealsPerDay) ==
    { PlanOf(Arr(d), Absent) : d \in DayArrays(mealsPerDay) }
    \cup { PlanOf(Absent, Arr([i \in 1..n |-> DayOf("full", i, mealsPerDay)])) : n \in DayCounts }
    \cup { PlanOf(Arr(<<>>), Arr(FullWeek(mealsPerDay))), PlanOf(NonArray, Arr(FullWeek(mealsPerDay))) }
    \cup { OneMealPlan, MidWeekPlan(mealsPerDay) }
    \cup { [PlanOf(Arr(d), Absent) EXCEPT !.summary = su, !.grocery_list = g, !.batch_prep = b] :
              d \in {FullWeek(mealsPerDay), <<>>},
              su \in Summaries, g \in GroceryLists, b \in BatchPreps }

\* the texts a completion can carry
PlanTexts ==
    { <<"{", "MEMBERS", "}">>,
      <<"FENCE_JSON", "NL", "{", "MEMBERS", "}", "NL", "FENCE">>,
      <<"PROSE", " ", "{", "MEMBERS", "}", " ", "PROSE">> }

OtherTexts ==
    { <<>>, <<"PROSE">>, <<"null">>, <<"{", "}">>, <<"{", "MEMBERS">>,
      <<"}", "PROSE", "{">>, <<"{", "PROSE", "}", "{", "MEMBERS", "}">>,
      <<"FENCE", "{", "}", "FENCE">>, <<"FENCE_JSON", "null", "FENCE">> }

\* a completion: the text, and the object its MEMBERS stand for.  Every plan comes
\* as strict JSON; the decorated texts come with a few plans
Completions(mealsPerDay) ==
    { [text |-> <<"{", "MEMBERS", "}">>, members |-> m] : m \in UpstreamPlans(mealsPerDay) }
    \cup { [text |-> tx, members |-> PlanOf(Arr(d), Absent)] :
              tx \in PlanTexts \cup OtherTexts,
              d \in {FullWeek(mealsPerDay), SubSeq(FullWeek(mealsPerDay), 1, 3)} }

\* outcomes of the repair completion: the call rejects, its text does not parse,
\* or it parses to a value
RepairOutcomes(basePlan, mealsPerDay) ==
    { [kind |-> "reject", value |-> NullPlan], [kind |-> "unparsable", value |-> NullPlan] }
    \cup { [kind |-> "value", value |-> v] :
              v \in { NullPlan, EmptyPlan, basePlan,
                      PlanOf(Arr(FullWeek(mealsPerDay)), Absent),
                      PlanOf(Arr(SubSeq(FullWeek(mealsPerDay), 1, 3)), Absent),
                      PlanOf(Arr(Append(SubSeq(FullWeek(mealsPerDay), 1, 6), NullDayEntry)), Absent) } }

(***************************************************************************)
(* One HTTP request through POST /api/nutrition or POST /api/generate-plan *)
(* (server.js:239-275 and 495-562; part_000:50-77; part_001:67-96 and      *)
(* 144-178).  An action is the code between two awaits; what the awaited   *)
(* service answers is chosen when the handler resumes.                     *)
(***************************************************************************)
DefaultPriceId == "price_1RsQJUAhLaqVN2Rssepup9EE"

\* server.js:38-39
PRICE_BASE(env) == IF env = "set" THEN "env_price_base" ELSE DefaultPriceId
PRICE_PRO(env)  == IF env = "set" THEN "env_price_pro" ELSE DefaultPriceId

\* amounts in cents: the pro amount the gate tests for, and the base price
ProAmount  == 1500
BaseAmount == 500

\* the line items of a session made by /api/checkout (server.js:220-224) for planType
LineItems(planType, env) ==
    LET price == IF planType = "pro" THEN PRICE_PRO(env) ELSE PRICE_BASE(env)
        cents == IF price = "env_price_pro" THEN ProAmount ELSE BaseAmount
    IN  << [price_id |-> price, quantity |-> 1, amount_total |-> cents,
            amount_subtotal |-> cents] >>

\* the mutant: every paid session counts as pro
hasProAlways(items, env) == TRUE

\* server.js:244-246
hasPro(items, env) ==
    \E i \in 1..Len(items) :
        \/ items[i].price_id = PRICE_PRO(env)
        \/ items[i].amount_total = ProAmount
        \/ items[i].amount_subtotal = ProAmount

NoSession == [exists |-> FALSE, payment_status |-> "unpaid", planType |-> "workout"]

Sessions ==
    {NoSession} \cup [exists : {TRUE}, payment_status : {"paid", "unpaid"},
                      planType : {"workout", "pro"}]

Endpoints(v) == IF v = "part_000" THEN {"generate-plan"} ELSE {"nutrition", "generate-plan"}

\* the profiles sent with a nutrition request
FlowProfiles == {ScenarioProfile}

\* meals_per_day = 0 stands for a body without the field
Requests(e) ==
    IF e = "nutrition"
    THEN [valid : {TRUE}, sessionId : {"none", "cs_test"}, meals_per_day : {0} \cup MinMeals..MaxMeals]
         \cup [valid : {FALSE}, sessionId : {"none", "cs_test"}, meals_per_day : {0}]
    ELSE [valid : {TRUE}, sessionId : {"none", "cs_test"}, meals_per_day : {0}]

\* the mutant: mealsPerDay kept in a binding of the module, which the handler that
\* started last has overwritten
mealsPerDayShared(r) ==
    IF other.pc \in {"idle", "request"}
    THEN IF r.meals_per_day = 0 THEN DefaultMeals ELSE r.meals_per_day
    ELSE IF other.req.meals_per_day = 0 THEN DefaultMeals ELSE other.req.meals_per_day

\* z.number().int().min(3).max(6).default(4), then Number(input.meals_per_day || 4)
mealsPerDayOf(r) == IF r.meals_per_day = 0 THEN DefaultMeals ELSE r.meals_per_day

NoCompletion == [text |-> <<>>, members |-> NullPlan]
NoResponse   == [status |-> 0, error |-> "", raw |-> <<>>, targets |-> NoTargets.t,
                 plan |-> NullPlan]

Reply(status, error) == [NoResponse EXCEPT !.status = status, !.error = error]

FlowIdle ==
    /\ pc = "idle" /\ deployed = "server" /\ priceEnv = "set" /\ endpoint = "nutrition"
    /\ req = [valid |-> FALSE, sessionId |-> "none", meals_per_day |-> 0]
    /\ session = NoSession /\ calls = 0 /\ log = <<>> /\ completion = NoCompletion
    /\ planJson = NullPlan /\ finalPlan = NullPlan /\ response = NoResponse

FlowInit ==
    /\ pc = "request"
    /\ deployed \in Variants
    /\ endpoint \in Endpoints(deployed)
    /\ priceEnv \in (IF deployed = "server" /\ endpoint = "nutrition"
                     THEN {"set", "unset"} ELSE {"set"})
    /\ req \in Requests(endpoint)
    /\ session \in (IF req.sessionId = "none" THEN {NoSession} ELSE Sessions)
    /\ profile \in (IF endpoint = "nutrition" /\ req.valid THEN FlowProfiles ELSE {NoProfile})
    /\ cpc = "idle" /\ targets = NoTargets
    /\ calls = 0 /\ log = <<>> /\ completion = NoCompletion
    /\ planJson = NullPlan /\ finalPlan = NullPlan /\ response = NoResponse

\* the variables a step of the handler can change
Update(p, lg, n, rw, pj, fp, tg, resp) ==
    /\ pc' = p /\ log' = lg /\ calls' = n /\ completion' = rw /\ planJson' = pj
    /\ finalPlan' = fp /\ targets' = tg /\ response' = resp

\* res.status(...) and return, nothing else changed
Finish(lg, resp) == Update("done", lg, calls, completion, planJson, finalPlan, targets, resp)

Frame == UNCHANGED <<deployed, priceEnv, endpoint, req, session, profile, cpc>>
         /\ UNCHANGED parseVars
         /\ UNCHANGED auxVars

\* lines 548-556: ensureBatchPrep, the summary step, res.json; a TypeError in
\* either step goes to the outer catch (lines 557-561)
summaryStep(plan, mpd) ==
    IF plan.summary.t = "absent"
    THEN [plan EXCEPT !.summary = [NoSummary EXCEPT !.t = "obj", !.meals_per_day = mpd]]
    ELSE IF plan.summary.meals_per_day = 0
    THEN [plan EXCEPT !.summary.meals_per_day = mpd]
    ELSE plan

RespondWith(b, plan, lg, n, rw, pj) ==
    IF ~b.ok
    THEN Update("done", lg, n, rw, pj, plan, targets, Reply(500, "Nutrition generation error"))
    ELSE IF b.plan.summary.t = "str"
    THEN Update("done", Append(lg, "batch_prep"), n, rw, pj, b.plan, targets,
                Reply(500, "Nutrition generation error"))
    ELSE Update("done", Append(Append(lg, "batch_prep"), "summary"), n, rw, pj,
                summaryStep(b.plan, mealsPerDayOf(req)), targets,
                [Reply(200, "") EXCEPT !.targets = targets.t,
                                       !.plan = summaryStep(b.plan, mealsPerDayOf(req))])

Respond(plan, lg, n, rw, pj) ==
    RespondWith(ensureBatchPrep(plan, mealsPerDayOf(req)), plan, lg, n, rw, pj)

\* server.js:495-500 and 240-241: validation, then the gate up to its first await
NutritionRequest ==
    /\ pc = "request" /\ endpoint = "nutrition" /\ deployed = "server"
    /\ IF ~req.valid THEN Finish(log, Reply(400, "Invalid nutrition input"))
       ELSE IF req.sessionId = "none" THEN Finish(log, Reply(401, "Missing sessionId"))
       ELSE Update("retrieve", Append(log, "retrieve"), calls, completion, planJson,
                   finalPlan, targets, response)
    /\ Frame

\* server.js:241-243 and 501-505: the session arrives, or the retrieve rejects
SessionRetrieved ==
    /\ pc = "retrieve" /\ endpoint = "nutrition"
    /\ IF ~session.exists THEN Finish(log, Reply(500, "Nutrition generation error"))
       ELSE IF session.payment_status # "paid" THEN Finish(log, Reply(402, "Payment required"))
       ELSE Update("items", Append(log, "listLineItems"), calls, completion, planJson,
                   finalPlan, targets, response)
    /\ Frame

\* server.js:243-247 and 508-523: the line items arrive; targets; the completion call
LineItemsListed ==
    /\ pc = "items"
    /\ IF ~hasPro(LineItems(session.planType, priceEnv), priceEnv)
       THEN Finish(log, Reply(403, "Nutrition is available with the Pro plan"))
       ELSE Update("completion", Append(log, "completion"), calls + 1, completion, planJson,
                   finalPlan, computeTargets(profile), response)
    /\ Frame

\* server.js:525-556: parse, the 502 exit, needsRepair, the repair call or the rest
CompletionReturnedFrom(answers) ==
    /\ pc = "completion" /\ endpoint = "nutrition" /\ deployed = "server"
    /\ \/ /\ Finish(log, Reply(500, "Nutrition generation error"))
       \/ \E c \in answers :
            LET mpd == mealsPerDayOf(req)
                r   == parsePlan(c.text)
                pj  == ValueOf(r.kind, c.members)
                nr  == needsRepair(pj, mpd)
            IN  IF ~r.ok
                THEN Update("done", Append(log, "parse_failed"), calls, c, NullPlan,
                            finalPlan, targets,
                            [Reply(502, "Model returned invalid JSON")
                                EXCEPT !.raw = c.text, !.targets = targets.t])
                ELSE IF nr = "throw"
                THEN Update("done", Append(log, "parsed"), calls, c, pj, pj, targets,
                            Reply(500, "Nutrition generation error"))
                ELSE IF nr = "true"
                THEN Update("repair", log \o <<"parsed", "repair_call">>, calls + 1,
                            c, pj, pj, targets, response)
                ELSE Respond(pj, Append(log, "parsed"), calls, c, pj)
    /\ Frame

CompletionReturned == CompletionReturnedFrom(Completions(mealsPerDayOf(req)))

\* server.js:540-556: the repair completion settles; the catch of line 541
RepairReturnedFrom(outcomes) ==
    /\ pc = "repair"
    /\ \E o \in outcomes :
         IF o.kind = "value"
         THEN Respond(o.value, Append(log, "repaired"), calls, completion, planJson)
         ELSE LET e == expandProgrammatically(finalPlan, mealsPerDayOf(req)) IN
              IF ~e.ok
              THEN Update("done", Append(log, "repair_failed"), calls, completion, planJson,
                          finalPlan, targets, Reply(500, "Nutrition generation error"))
              ELSE Respond(e.plan, log \o <<"repair_failed", "programmatic">>, calls,
                           completion, planJson)
    /\ Frame

RepairReturned == RepairReturnedFrom(RepairOutcomes(finalPlan, mealsPerDayOf(req)))

\* part_001:144-163: validation, targets, the completion call; no gate
NutritionRequest001 ==
    /\ pc = "request" /\ endpoint = "nutrition" /\ deployed = "part_001"
    /\ IF ~req.valid THEN Finish(log, Reply(400, "Invalid nutrition input"))
       ELSE Update("completion", Append(log, "completion"), calls + 1, completion, planJson,
                   finalPlan, computeTargets(profile), response)
    /\ Frame

\* part_001:164-177: JSON.parse, the 502 exit, res.json
CompletionReturned001 ==
    /\ pc = "completion" /\ endpoint = "nutrition" /\ deployed = "part_001"
    /\ \/ Finish(log, Reply(500, "Nutrition generation error"))
       \/ \E c \in Completions(mealsPerDayOf(req)) :
            LET r  == parsePlanStrict(c.text)
                pj == ValueOf(r.kind, c.members)
            IN  IF ~r.ok
                THEN Update("done", Append(log, "parse_failed"), calls, c, NullPlan, finalPlan,
                            targets, [Reply(502, "Model returned invalid JSON")
                                         EXCEPT !.raw = c.text, !.targets = targets.t])
                ELSE Update("done", Append(log, "parsed"), calls, c, pj, pj, targets,
                            [Reply(200, "") EXCEPT !.targets = targets.t, !.plan = pj])
    /\ Frame

\* server.js:252-268, part_001:67-89, part_000:50-70: the session check is skipped
\* without a sessionId, but for part_000, which always retrieves
GeneratePlanRequest ==
    /\ pc = "request" /\ endpoint = "generate-plan"
    /\ IF deployed = "part_000" \/ req.sessionId # "none"
       THEN Update("retrieve", Append(log, "retrieve"), calls, completion, planJson,
                   finalPlan, targets, response)
       ELSE Update("completion", Append(log, "completion"), calls + 1, completion, planJson,
                   finalPlan, targets, response)
    /\ Frame

\* server.js:257-268: the session arrives, or the retrieve rejects (always so
\* without an id)
WorkoutSessionRetrieved ==
    /\ pc = "retrieve" /\ endpoint = "generate-plan"
    /\ IF req.sessionId = "none" \/ ~session.exists
       THEN Finish(log, Reply(500, "Plan generation error"))
       ELSE IF session.payment_status # "paid" THEN Finish(log, Reply(402, "Payment required"))
       ELSE Update("completion", Append(log, "completion"), calls + 1, completion, planJson,
                   finalPlan, targets, response)
    /\ Frame

\* server.js:270-274: the plan text is sent as it is
WorkoutCompletionReturned ==
    /\ pc = "completion" /\ endpoint = "generate-plan"
    /\ \/ Finish(log, Reply(500, "Plan generation error"))
       \/ Finish(Append(log, "text"), Reply(200, ""))
    /\ Frame

(***************************************************************************)
(* Properties of the request flow.                                         *)
(***************************************************************************)
Has(e) == \E i \in 1..Len(log) : log[i] = e
Count(e) == Cardinality({i \in 1..Len(log) : log[i] = e})

NutritionServer == endpoint = "nutrition" /\ deployed = "server"

\* the days of a plan as a list of meal counts; an entry without a meal list,
\* or a null entry, has no meals
MealCounts(plan) ==
    LET d == daysOf(plan) IN
    IF d.t # "arr" THEN <<>>
    ELSE [i \in 1..Len(d.v) |-> IF d.v[i].t = "obj" /\ d.v[i].meals.t = "arr"
                                THEN Len(d.v[i].meals.v) ELSE 0]

\* C1 (as stated): every plan the nutrition flow returns has exactly 7 day_plans,
\* each with exactly mealsPerDay meals, whichever repair path ran.
C1_SevenDaysExactMeals ==
    (NutritionServer /\ pc = "done" /\ response.status = 200) =>
        /\ response.plan.day_plans.t = "arr"
        /\ Len(response.plan.day_plans.v) = 7
        /\ \A i \in 1..Len(response.plan.day_plans.v) :
              LET d == response.plan.day_plans.v[i] IN
              d.t = "obj" /\ d.meals.t = "arr" /\ Len(d.meals.v) = mealsPerDayOf(req)

\* C2 (as stated): when the model-assisted repair call fails, programmatic repair
\* builds the plan and no error of the repair pipeline reaches the caller.
C2_FallbackNeverFails ==
    (NutritionServer /\ pc = "done" /\ Has("repair_failed")) => Has("programmatic")

\* C3 (as stated): repair is triggered exactly when the parsed plan has fewer than 7
\* days or a day with fewer than mealsPerDay meals; one model-assisted call comes
\* first, programmatic repair only after that call failed, at most two completion
\* calls per request.
C3_RepairExactlyWhenIncomplete ==
    (NutritionServer /\ Has("parsed")) =>
        LET counts == MealCounts(planJson)
            incomplete == \/ Len(counts) < 7
                          \/ \E i \in 1..Len(counts) : counts[i] < mealsPerDayOf(req)
        IN  /\ (pc = "done" \/ pc = "repair") => (Has("repair_call") <=> incomplete)
            /\ Count("repair_call") <= 1
            /\ Has("programmatic") =>
                  \E i, j, k \in 1..Len(log) :
                     /\ i < j /\ j < k
                     /\ log[i] = "repair_call" /\ log[j] = "repair_failed"
                     /\ log[k] = "programmatic"
            /\ calls <= 2

\* the day objects of a plan as programmatic repair finds them
InputDays(plan) ==
    IF plan.day_plans.t = "arr" THEN plan.day_plans.v
    ELSE IF plan.days.t = "arr" THEN plan.days.v ELSE <<>>

\* day b is day a copied, renumbered n, its meals rotated left by one
IsCloneOf(b, a, n) ==
    /\ b.t = a.t /\ b.total_kcal = a.total_kcal /\ b.day = n
    /\ b.meals.t = "arr" /\ Len(b.meals.v) = Len(a.meals.v)
    /\ \A j \in 1..Len(a.meals.v) :
          b.meals.v[j] = a.meals.v[IF Len(a.meals.v) > 1 THEN (j % Len(a.meals.v)) + 1 ELSE j]

\* C12: when programmatic repair returns a plan for an input with k < 7 days, the
\* result has 7 days, the first k keep their numbers, and each day after the k-th
\* (after the first, for k = 0) is a copy of the day before it, renumbered to its
\* position, with the meals rotated left by one when there is more than one.  For
\* day_plans [{day 1, meals [M1]}] and mealsPerDay 3: 7 days, day 1 has [M1, M1, M1],
\* day 2 is day 1 renumbered.
C12_CloneRenumberRotate ==
    (NutritionServer /\ pc = "done" /\ Has("programmatic")) =>
        LET k   == Len(InputDays(planJson))
            out == finalPlan.day_plans
        IN  /\ out.t = "arr"
            /\ k < 7 =>
                 /\ Len(out.v) = 7
                 /\ \A i \in 1..k : out.v[i].day = InputDays(planJson)[i].day
                 /\ \A i \in 2..7 : i > k => IsCloneOf(out.v[i], out.v[i - 1], i)
            /\ (planJson = OneMealPlan /\ mealsPerDayOf(req) = 3) =>
                 /\ Len(out.v) = 7
                 /\ out.v[1].meals.v = <<Meal(1), Meal(1), Meal(1)>>
                 /\ out.v[2] = [out.v[1] EXCEPT !.day = 2]

C12_Witness ==
    /\ NutritionServer /\ pc = "done" /\ Has("programmatic") /\ response.status = 200
    /\ Len(InputDays(planJson)) = 3
    /\ Len(finalPlan.day_plans.v) = 7
    /\ finalPlan.day_plans.v[4].day = 4
    /\ finalPlan.day_plans.v[4].meals.v # finalPlan.day_plans.v[3].meals.v
    /\ IsCloneOf(finalPlan.day_plans.v[4], finalPlan.day_plans.v[3], 4)

\* the meals of input day d after the padding of lines 352-356: its own meals, then
\* copies of its last meal, or of the generic placeholder when it has none
PaddedMeals(d, mpd) ==
    LET own == IF d.meals.t = "arr" THEN d.meals.v ELSE <<>> IN
    IF Len(own) >= mpd THEN own
    ELSE [j \in 1..mpd |-> IF j <= Len(own) THEN own[j]
                           ELSE IF own = <<>> THEN PlaceholderMeal ELSE own[Len(own)]]

\* the padding half of C23: every input day comes out with its padded meals, and an
\* input without days comes out as 7 days of mealsPerDay placeholder meals
C23_Padding ==
    (NutritionServer /\ pc = "done" /\ Has("programmatic")) =>
        LET ins == InputDays(planJson)
            out == finalPlan.day_plans.v
            mpd == mealsPerDayOf(req)
        IN  /\ \A i \in 1..Len(ins) : out[i].meals = Arr(PaddedMeals(ins[i], mpd))
            /\ ins = <<>> =>
                 /\ Len(out) = 7
                 /\ \A i \in 1..7 : out[i].meals = Arr([j \in 1..mpd |-> PlaceholderMeal])

C23_PaddingWitness ==
    /\ NutritionServer /\ pc = "done" /\ Has("programmatic") /\ response.status = 200
    /\ InputDays(planJson) = <<>> /\ mealsPerDayOf(req) = 5
    /\ Len(finalPlan.day_plans.v) = 7
    /\ finalPlan.day_plans.v[7].meals.v = <<PlaceholderMeal, PlaceholderMeal, PlaceholderMeal,
                                            PlaceholderMeal, PlaceholderMeal>>

\* C23: programmatic repair of a plan without days synthesizes a first day whose
\* total_kcal is the calorie target computed for the request, fills it with
\* mealsPerDay placeholder meals and clones it up to 7 days; a day with fewer than
\* mealsPerDay meals is padded with copies of its last meal, or of the placeholder.
C23_SynthesizedDayCarriesTarget ==
    /\ C23_Padding
    /\ (NutritionServer /\ pc = "done" /\ Has("programmatic") /\ InputDays(planJson) = <<>>) =>
          finalPlan.day_plans.v[1].total_kcal = targets.t.kcal

\* C29: after programmatic repair of a plan with at most 7 days the result has 7
\* days whose numbers are pairwise distinct and in 1..7: the day at position p
\* carries the number p.
C29_DayNumbersArePositions ==
    (NutritionServer /\ pc = "done" /\ Has("programmatic") /\ Len(InputDays(planJson)) <= 7) =>
        /\ Len(finalPlan.day_plans.v) = 7
        /\ \A p \in 1..7 : finalPlan.day_plans.v[p].day = p
        /\ \A p, q \in 1..7 :
              p # q => finalPlan.day_plans.v[p].day # finalPlan.day_plans.v[q].day

\* the item names a plan contains: its grocery entries and the ingredients of its
\* meals, in lower case and without the quantity
PlanFoods(plan) ==
    { stripQty(norm(plan.grocery_list.v[i].name)) :
         i \in { j \in DOMAIN (IF plan.grocery_list.t = "arr" THEN plan.grocery_list.v ELSE <<>>) :
                    plan.grocery_list.v[j].t = "obj" } }
    \cup
    UNION { UNION { { stripQty(norm(d.meals.v[j].ingredients[k].name)) :
                         k \in { m \in DOMAIN d.meals.v[j].ingredients :
                                    d.meals.v[j].ingredients[m].t = "obj" } } :
                    j \in DOMAIN (IF d.t = "obj" /\ d.meals.t = "arr" THEN d.meals.v ELSE <<>>) } :
            d \in { InputDays(plan)[i] : i \in DOMAIN InputDays(plan) } }

\* name n has the word w: w stands in n between blanks or the ends
HasWord(n, w) ==
    \E i \in 0..(Len(n) - Len(w)) :
        /\ SubSeq(n, i + 1, i + Len(w)) = w
        /\ (i = 0 \/ n[i] = " ")
        /\ (i + Len(w) = Len(n) \/ n[i + Len(w) + 1] = " ")

\* the joined lists that can be made of names of the set foods
JoinedFrom(foods) ==
    { prettyJoin(q) : q \in UNION { [1..n -> foods] : n \in 1..3 } }

\* a synthesized step names only foods of the plan: the names joined into it are
\* item names of the plan, and a food its fixed wording names is a word of one
StepGrounded(st, foods) ==
    /\ st.arg = <<>> \/ st.arg \in JoinedFrom(foods)
    /\ fixedFood(st.tpl) = {} \/ \E n \in foods : \E w \in fixedFood(st.tpl) : HasWord(n, w)

\* the synthesized steps of a plan's batch_prep (the provider's own steps aside)
SynthSteps(plan) ==
    UNION { { b.steps.v[i] : i \in { j \in DOMAIN b.steps.v : b.steps.v[j].tpl # "own" } } :
            b \in { plan.batch_prep.v[i] :
                       i \in { j \in DOMAIN plan.batch_prep.v : plan.batch_prep.v[j].steps.t = "arr" } } }

\* C13: every food name in a synthesized batch-prep step of a returned plan is an
\* item name of the plan's grocery list or meal ingredients; no step names a food the
\* plan does not contain.
C13_Grounded ==
    (NutritionServer /\ pc = "done" /\ response.status = 200 /\ Has("batch_prep")) =>
        \A st \in SynthSteps(finalPlan) : StepGrounded(st, PlanFoods(finalPlan))

\* ... which holds of every step but the egg step: the names joined into a step are
\* always item names of the plan
C13_JoinedNamesGrounded ==
    (NutritionServer /\ pc = "done" /\ response.status = 200 /\ Has("batch_prep")) =>
        \A st \in SynthSteps(finalPlan) :
            st.arg = <<>> \/ st.arg \in JoinedFrom(PlanFoods(finalPlan))

\* the returned plan's batch_prep is the synthesized one: two blocks, none of the
\* provider's own steps
Synthesized(plan) ==
    /\ plan.batch_prep.t = "arr" /\ Len(plan.batch_prep.v) = 2
    /\ \A i \in 1..2 :
          /\ plan.batch_prep.v[i].steps.t = "arr"
          /\ \A j \in DOMAIN plan.batch_prep.v[i].steps.v : plan.batch_prep.v[i].steps.v[j].tpl # "own"

StepsOf(plan, i) == stepSet(plan.batch_prep.v[i].steps.v)

\* the name is eggs: it has the word egg or eggs
IsEggs(n) == HasWord(n, <<"e", "g", "g">>) \/ HasWord(n, <<"e", "g", "g", "s">>)
NotEggs(n) == ~IsEggs(n)

S_chickenBreast == norm(F_chicken)
S_brownRice     == norm(F_brownrice)
S_broccoli      == norm(F_broccoli)

C14_Scope ==
    /\ NutritionServer /\ pc = "done" /\ response.status = 200 /\ Has("batch_prep")
    /\ Synthesized(finalPlan)

\* C14 (scenario): for the grocery items chicken breast, brown rice, broccoli and eggs
\* the Sunday steps have a bulk-cook protein step naming chicken breast and not eggs, a
\* hard-boil-eggs step, a carb step naming brown rice and a vegetable step naming
\* broccoli; the Thursday steps have a protein top-up, a carb top-up and a vegetable
\* refresh.
C14_Scenario ==
    (C14_Scope /\ finalPlan.grocery_list = ScenarioGrocery) =>
        /\ Step("bulk_proteins", S_chickenBreast, 0) \in StepsOf(finalPlan, 1)
        /\ Step("boil_eggs", <<>>, 0) \in StepsOf(finalPlan, 1)
        /\ Step("batch_carbs", S_brownRice, 0) \in StepsOf(finalPlan, 1)
        /\ Step("sturdy_veg", S_broccoli, 0) \in StepsOf(finalPlan, 1)
        /\ \E st \in StepsOf(finalPlan, 2) : st.tpl = "topup_proteins"
        /\ \E st \in StepsOf(finalPlan, 2) : st.tpl = "topup_carbs"
        /\ \E st \in StepsOf(finalPlan, 2) : st.tpl = "refresh_veg"

\* the item names the synthesizer reads, and those of them it matches as proteins
NamesRead(plan) == extractItemNames(plan).names
MatchedProteins(plan) == filterByKeywords(NamesRead(plan), KW_proteins)

\* C14: the scenario above, and in general the bulk-cook protein step lists exactly the
\* matched proteins that are not eggs, and the egg step appears exactly when eggs are
\* present in the plan.
C14_ScenarioAndEggRule ==
    /\ C14_Scenario
    /\ C14_Scope =>
         /\ (Step("boil_eggs", <<>>, 0) \in StepsOf(finalPlan, 1))
               <=> (\E i \in DOMAIN NamesRead(finalPlan) : IsEggs(NamesRead(finalPlan)[i]))
         /\ \A st \in StepsOf(finalPlan, 1) :
               st.tpl = "bulk_proteins" =>
                  st.arg = prettyJoin(SelectSeq(MatchedProteins(finalPlan), NotEggs))
         /\ (\E st \in StepsOf(finalPlan, 1) : st.tpl = "bulk_proteins")
               <=> SelectSeq(MatchedProteins(finalPlan), NotEggs) # <<>>

\* position of the first occurrence of an event in the log, 0 when it is not there
IndexOf(ev) ==
    IF Has(ev) THEN SetMin({i \in 1..Len(log) : log[i] = ev}) ELSE 0

\* the plan has a block of the given day whose steps end with the given step
EndsWith(plan, day, step) ==
    /\ plan.batch_prep.t = "arr"
    /\ \E i \in DOMAIN plan.batch_prep.v :
          /\ norm(plan.batch_prep.v[i].day) = norm(day)
          /\ plan.batch_prep.v[i].steps.t = "arr"
          /\ Len(plan.batch_prep.v[i].steps.v) > 0
          /\ plan.batch_prep.v[i].steps.v[Len(plan.batch_prep.v[i].steps.v)] = step

\* the enforcement runs once, after the repair decision of whichever path was taken
C16_EnforcedOnEveryPath ==
    (NutritionServer /\ pc = "done" /\ response.status = 200) =>
        /\ Count("batch_prep") = 1
        /\ Has("parsed") \/ Has("repaired") \/ Has("programmatic")
        /\ IndexOf("batch_prep") > IndexOf("parsed")
        /\ IndexOf("batch_prep") > IndexOf("repaired")
        /\ IndexOf("batch_prep") > IndexOf("programmatic")

\* C16: on every nutrition request that returns a plan, batch-prep enforcement ran
\* after the repair decision and before the response on whichever of the three paths
\* was taken, and the returned plan has a batch_prep with a Sunday entry ending with
\* the label reminder and a Thursday entry ending with the inventory reminder.
C16_BatchPrepAlwaysEnforced ==
    /\ C16_EnforcedOnEveryPath
    /\ (NutritionServer /\ pc = "done" /\ response.status = 200) =>
          /\ response.plan = finalPlan
          /\ EndsWith(finalPlan, Sunday, Step("label", <<>>, mealsPerDayOf(req)))
          /\ EndsWith(finalPlan, Thursday, Step("inventory", <<>>, 0))

\* the blocks the provider's plan came with, and whether the handler enforced the
\* batch prep on that very plan (no repair in between)
ExistingBlocks(plan) == IF plan.batch_prep.t = "arr" THEN plan.batch_prep.v ELSE <<>>

EnforcedOnParsed ==
    NutritionServer /\ pc = "done" /\ Has("batch_prep") /\ ~Has("repair_call")

IsPrefix(a, b) == Len(a) <= Len(b) /\ SubSeq(b, 1, Len(a)) = a

\* the existing steps of the day of block g: those of the first existing block of
\* that day, none when there is no such block
ExistingStepsOfDay(cur, g) ==
    LET hit == {i \in 1..Len(cur) : norm(cur[i].day) = norm(g.day)} IN
    IF hit = {} THEN <<>> ELSE cur[SetMin(hit)].steps.v

\* out is cur with, for each generated day, the generated steps that are not in
\* known(g) appended to the block of that day (a new block at the end when cur has
\* none), everything that was in cur kept in place
MergedAgainst(cur, gen, out, known(_)) ==
    /\ Len(out) = Len(cur) + Cardinality({k \in 1..Len(gen) :
                      \A i \in 1..Len(cur) : norm(cur[i].day) # norm(gen[k].day)})
    /\ \A i \in 1..Len(cur) :
          out[i].day = cur[i].day /\ IsPrefix(cur[i].steps.v, out[i].steps.v)
    /\ \A k \in 1..Len(gen) :
          \E i \in 1..Len(out) :
             /\ norm(out[i].day) = norm(gen[k].day)
             /\ \A j \in 1..(i - 1) : norm(out[j].day) # norm(gen[k].day)
             /\ out[i].steps.v = ExistingStepsOfDay(cur, gen[k])
                                 \o SelectSeq(gen[k].steps.v, LAMBDA x : x \notin known(gen[k]))

C24_Policy(known(_)) ==
    EnforcedOnParsed =>
        LET cur == ExistingBlocks(planJson)
            gen == buildBatchPrepFromPlan(planJson, mealsPerDayOf(req)).batch
            out == finalPlan.batch_prep.v
        IN  IF Len(cur) < 2 \/ countSteps(cur) < 4
            THEN out = gen
            ELSE MergedAgainst(cur, gen, out, known)

\* what the code does: a generated step is left out when ANY existing block has it
C24_MergeAgainstAllDays ==
    C24_Policy(LAMBDA g : stepSet(allSteps(ExistingBlocks(planJson))))

C24_MergeWitness ==
    /\ EnforcedOnParsed /\ response.status = 200
    /\ Len(ExistingBlocks(planJson)) = 2 /\ countSteps(ExistingBlocks(planJson)) = 4
    /\ Len(finalPlan.batch_prep.v) = 3
    /\ Len(finalPlan.batch_prep.v[1].steps.v) > 3

\* C24: an existing batch_prep with fewer than 2 day entries or fewer than 4 steps
\* in total is replaced by the synthesized one; otherwise, for each synthesized day D,
\* every synthesized step that is not among the existing steps of day D is appended to
\* day D, the existing days and steps staying in their order ahead of the appended
\* ones.
C24_MergeAgainstSameDay ==
    C24_Policy(LAMBDA g : stepSet(ExistingStepsOfDay(ExistingBlocks(planJson), g)))

\* the first half of C27: the summary step writes the requested mealsPerDay into a
\* summary that lacks meals_per_day (a new summary when the plan has none) and leaves
\* a meals_per_day that is there alone; no repair call rewrote the summary here
C27_SummaryStep ==
    (NutritionServer /\ pc = "done" /\ response.status = 200 /\ ~Has("repaired")) =>
        /\ response.plan.summary.t = "obj"
        /\ response.plan.summary.meals_per_day =
              (IF planJson.summary.t = "obj" /\ planJson.summary.meals_per_day # 0
               THEN planJson.summary.meals_per_day ELSE mealsPerDayOf(req))
        /\ planJson.summary.t = "obj" =>
              response.plan.summary = [planJson.summary EXCEPT
                                          !.meals_per_day = response.plan.summary.meals_per_day]

C27_Witness ==
    /\ NutritionServer /\ pc = "done" /\ response.status = 200 /\ ~Has("repaired")
    /\ planJson.summary.t = "absent" /\ mealsPerDayOf(req) = 5
    /\ response.plan.summary.meals_per_day = 5

\* C27: before the response is sent, summary.meals_per_day is set to the requested
\* mealsPerDay when the summary lacks it (the summary created when absent) and left
\* alone when present; so the returned summary.meals_per_day equals the number of
\* meals of each returned day.
C27_SummaryMatchesMeals ==
    /\ C27_SummaryStep
    /\ (NutritionServer /\ pc = "done" /\ response.status = 200) =>
          \A i \in 1..Len(MealCounts(response.plan)) :
              MealCounts(response.plan)[i] = response.plan.summary.meals_per_day

\* C30: batch-prep enforcement is idempotent: applied to the plan it returned, with
\* the same mealsPerDay, ensureBatchPrep succeeds and leaves batch_prep as it is (same
\* days, same steps, same order), whether it rebuilt the batch prep or merged into it.
C30_EnsureIdempotent ==
    (NutritionServer /\ pc = "done" /\ Has("batch_prep")) =>
        /\ ensureBatchPrep(finalPlan, mealsPerDayOf(req)).ok
        /\ ensureBatchPrep(finalPlan, mealsPerDayOf(req)).plan.batch_prep = finalPlan.batch_prep

\* the merge branch ran and appended steps; enforcing again appends nothing
C30_Witness ==
    /\ EnforcedOnParsed /\ response.status = 200
    /\ Len(ExistingBlocks(planJson)) >= 2 /\ countSteps(ExistingBlocks(planJson)) >= 4
    /\ countSteps(finalPlan.batch_prep.v) > countSteps(ExistingBlocks(planJson))
    /\ ensureBatchPrep(finalPlan, mealsPerDayOf(req)).plan.batch_prep = finalPlan.batch_prep

\* ... and so it is where the batch prep was rebuilt from a weak one
C30_RebuiltWitness ==
    /\ EnforcedOnParsed /\ response.status = 200
    /\ Len(ExistingBlocks(planJson)) < 2
    /\ countSteps(finalPlan.batch_prep.v) >= 4
    /\ ensureBatchPrep(finalPlan, mealsPerDayOf(req)).plan.batch_prep = finalPlan.batch_prep

\* the gate's tests, restated: no line item carries the pro price or the pro amount
C4_NotPro ==
    \A i \in 1..Len(LineItems(session.planType, priceEnv)) :
        LET li == LineItems(session.planType, priceEnv)[i] IN
        /\ li.price_id # PRICE_PRO(priceEnv)
        /\ li.amount_total # ProAmount /\ li.amount_subtotal # ProAmount

C5_NutritionOnlyForPaidPro ==
    (endpoint = "nutrition" /\ calls > 0) =>
        /\ req.sessionId # "none" /\ session.exists
        /\ session.payment_status = "paid" /\ session.planType = "pro"

\* the two parses of the claim, restated on the tokens of the text
C6_StrictObject(toks) == JsonParse(toks).ok /\ JsonParse(toks).kind # "null"

C6_RescueObject(toks) ==
    LET cleaned == SelectSeq(toks, LAMBDA x : x # "FENCE_JSON" /\ x # "FENCE")
        braces  == {i \in 1..Len(cleaned) : cleaned[i] \in {"{", "}"}}
    IN  /\ \E i \in braces : cleaned[i] = "{"
        /\ \E i \in braces : cleaned[i] = "}"
        /\ LET first == SetMin({i \in braces : cleaned[i] = "{"})
               last  == SetMax({i \in braces : cleaned[i] = "}"})
           IN  C6_StrictObject(SubSeq(cleaned, first, last))

\* C6: when the strict parse and the rescue parse both fail, the request ends with
\* the 502 "invalid JSON" error carrying the raw text, after one completion call and
\* with no repair and no batch-prep step; when a parse yields a plan object, the
\* request goes on with that object.
C6_RescueOrInvalid ==
    (NutritionServer /\ completion # NoCompletion) =>
        IF JsonParse(completion.text).ok
        THEN IF C6_StrictObject(completion.text)
             THEN /\ planJson = ValueOf(JsonParse(completion.text).kind, completion.members)
                  /\ Has("parsed") /\ response.status # 502
             ELSE response.status = 502
        ELSE IF C6_RescueObject(completion.text)
        THEN /\ planJson.t = "obj" /\ Has("parsed") /\ response.status # 502
             /\ planJson \in {completion.members, EmptyPlan}
        ELSE /\ pc = "done" /\ response.status = 502 /\ response.raw = completion.text
             /\ calls = 1
             /\ ~Has("repair_call") /\ ~Has("repaired") /\ ~Has("programmatic")
             /\ ~Has("batch_prep")

C6_Witness ==
    /\ NutritionServer /\ pc = "done" /\ response.status = 502
    /\ completion.text = <<"}", "PROSE", "{">> /\ response.raw = completion.text

(***************************************************************************)
(* PDF generation: the pages of a document and their numbering             *)
(* (server.js:49-78, 94-211; part_000:80-218; part_001:181-321).           *)
(* A page is the sequence of footers stamped on it.  The document keeps    *)
(* the pages not yet written out in pageBuffer; flushPages writes them out *)
(* and empties the buffer, and addPage flushes first unless the document   *)
(* was created with bufferPages.                                           *)
(***************************************************************************)
Generators ==
    { "generateWorkoutPDF", "generateNutritionPDF", "generateUnifiedPDF",
      "generateEnhancedPDF_000", "generateWorkoutPDF_001", "generateNutritionPDF_001" }

\* the options the generator passes to new PDFDocument
bufferPagesOf(g) == g \in {"generateWorkoutPDF", "generateNutritionPDF", "generateUnifiedPDF"}

\* weeks.slice(0, 6)
WeekSlice == 6
sliced(w) == IF w > WeekSlice THEN WeekSlice ELSE w

\* the doc.addPage() calls of a generator, for w parsed weeks and d day entries
workoutAddPages(w)      == 2 + sliced(w)
nutritionAddPages(d)    == 5 + d
enhancedAddPages000(w)  == 3 + sliced(w)
nutritionAddPages001(d) == 3 + d

addPageCalls(g, w, d) ==
    CASE g = "generateWorkoutPDF"       -> workoutAddPages(w)
      [] g = "generateNutritionPDF"     -> nutritionAddPages(d)
      [] g = "generateUnifiedPDF"       -> workoutAddPages(w) + nutritionAddPages(d)
      [] g = "generateEnhancedPDF_000"  -> enhancedAddPages000(w)
      [] g = "generateWorkoutPDF_001"   -> workoutAddPages(w)
      [] g = "generateNutritionPDF_001" -> nutritionAddPages001(d)

BlankPage == <<>>

\* new PDFDocument(options): the first page is added at once
newPDFDocument(bufferPages) ==
    [bufferPages |-> bufferPages, pageBuffer |-> <<BlankPage>>, pageBufferStart |-> 0,
     written |-> <<>>]

\* doc.flushPages(): the buffered pages are written out and leave the buffer
flushPages(d) ==
    [d EXCEPT !.written = @ \o d.pageBuffer,
              !.pageBufferStart = @ + Len(d.pageBuffer),
              !.pageBuffer = <<>>]

\* doc.addPage()
addPage(d) ==
    LET e == IF d.bufferPages THEN d ELSE flushPages(d)
    IN  [e EXCEPT !.pageBuffer = Append(@, BlankPage)]

\* doc.bufferedPageRange()
bufferedPageRange(d) == [start |-> d.pageBufferStart, count |-> Len(d.pageBuffer)]

\* the for-loop of the page numbering from index i on: switchToPage(i), then the
\* footer text on that page
RECURSIVE stampPages(_, _, _)
stampPages(d, i, count) ==
    IF i >= count THEN d
    ELSE stampPages([d EXCEPT !.pageBuffer[i - d.pageBufferStart + 1] =
                                  Append(@, [i |-> i + 1, of |-> count])],
                    i + 1, count)

\* addPageNumbersAndEnd (server.js:69-78): flushPages, the range, the loop, doc.end()
\* (which flushes what is still buffered)
addPageNumbersAndEnd(d) ==
    flushPages(stampPages(flushPages(d), 0, bufferedPageRange(flushPages(d)).count))

\* most weeks in a workout text, most day entries in a plan, most pages added by
\* overflowing text
MaxPdfWeeks == 7
MaxPdfDays == 2
MaxSpills == 2

NoPdf == [bufferPages |-> FALSE, pageBuffer |-> <<>>, pageBufferStart |-> 0, written |-> <<>>]

PdfIdle ==
    kpc = "idle" /\ generator = "none" /\ pdf = NoPdf /\ pending = 0 /\ spills = 0

\* a generator is called: the document is created with its first page
GeneratePdf ==
    /\ kpc = "idle"
    /\ \E g \in Generators, w \in 0..MaxPdfWeeks, d \in 0..MaxPdfDays :
          /\ generator' = g
          /\ pdf' = newPDFDocument(bufferPagesOf(g))
          /\ pending' = addPageCalls(g, w, d)
    /\ kpc' = "render"
    /\ UNCHANGED spills
    /\ UNCHANGED <<calcVars, parseVars, flowVars, twoVars, mailVars, drawVars>>

\* the render code reaches its next doc.addPage()
AddPage ==
    /\ kpc = "render" /\ pending > 0
    /\ pdf' = addPage(pdf)
    /\ pending' = pending - 1
    /\ UNCHANGED <<kpc, generator, spills>>
    /\ UNCHANGED <<calcVars, parseVars, flowVars, twoVars, mailVars, drawVars>>

\* a doc.text() of the content runs over the bottom margin: the document continues
\* on a new page
ContinueOnNewPage ==
    /\ kpc = "render" /\ spills < MaxSpills
    /\ pdf' = addPage(pdf)
    /\ spills' = spills + 1
    /\ UNCHANGED <<kpc, generator, pending>>
    /\ UNCHANGED <<calcVars, parseVars, flowVars, twoVars, mailVars, drawVars>>

\* the content is drawn: the pages are numbered and the document is ended
NumberAndEnd ==
    /\ kpc = "render" /\ pending = 0
    /\ pdf' = addPageNumbersAndEnd(pdf)
    /\ kpc' = "ended"
    /\ UNCHANGED <<generator, pending, spills>>
    /\ UNCHANGED <<calcVars, parseVars, flowVars, twoVars, mailVars, drawVars>>

\* C15: when a generator has ended its document, every page carries exactly one
\* footer 'Page i of N', N being the number of pages of the document and i the
\* page's position, so that i takes each value of 1..N once.
C15_EveryPageNumbered ==
    kpc = "ended" =>
        \A p \in 1..Len(pdf.written) :
            pdf.written[p] = <<[i |-> p, of |-> Len(pdf.written)]>>

\* what the code does instead: no page of an ended document carries a footer
C15_NoPageNumbered ==
    kpc = "ended" =>
        /\ pdf.pageBuffer = <<>> /\ Len(pdf.written) >= 3
        /\ \A p \in 1..Len(pdf.written) : pdf.written[p] = <<>>


(***************************************************************************)
(* POST /api/email-plan (server.js:564-609; part_000:221-258;              *)
(* part_001:333-374).  The body's fields by what the code tests of them:   *)
(*   email      "present" | "missing"                                      *)
(*   plan       "text" | "missing" | "other" (truthy, but no string)       *)
(*   nutrition  "none" | "plan" | "broken" (a plan whose day or grocery    *)
(*              entries the renderer cannot read, as a null day entry)     *)
(***************************************************************************)
EmailRequests ==
    [email : {"present", "missing"}, plan : {"text", "missing", "other"},
     nutrition : {"none", "plan", "broken"}, merge : BOOLEAN]

NoEmailRequest == [email |-> "missing", plan |-> "missing", nutrition |-> "none", merge |-> FALSE]
NoEmailResponse == [status |-> 0, error |-> ""]

DeliveryFailed == [status |-> 500, error |-> "Email delivery failed"]

\* the guard of the variant before anything is rendered: a reply, or none
\* (server.js:565 throws into the handler's catch; part_000:250, part_001:367 return 400)
emailGuard(v, r) ==
    IF r.email = "present" /\ r.plan # "missing" THEN NoEmailResponse
    ELSE CASE v = "server"   -> DeliveryFailed
           [] v = "part_000" -> [status |-> 400, error |-> "Email and plan are required"]
           [] v = "part_001" -> [status |-> 400, error |-> "Email and workout plan are required"]

\* the first PDF is the unified one (server.js:567-568)
unifiedFirst(v, r) == v = "server" /\ r.nutrition # "none" /\ r.merge

\* the workout text cannot be parsed: planText.replace is not a function
\* (the (text || '') guard does not help for a truthy value)
workoutRenderThrows(r) == r.plan = "other"

\* renderNutritionSection reads d.total_kcal / it.item of a null entry
nutritionRenderThrows(r) == r.nutrition = "broken"

\* the synchronous rendering of the first document throws
firstRenderThrows(v, r) ==
    workoutRenderThrows(r) \/ (unifiedFirst(v, r) /\ nutritionRenderThrows(r))

\* a second document, the nutrition PDF, is rendered after the first is buffered
\* (server.js:584-588, part_001:346-355)
secondRender(v, r) == v # "part_000" /\ r.nutrition # "none" /\ ~unifiedFirst(v, r)

MailIdle ==
    /\ epc = "idle" /\ evariant = "server" /\ ereq = NoEmailRequest
    /\ ecause = "none" /\ eresp = NoEmailResponse

MailInit ==
    /\ epc = "request" /\ evariant \in Variants /\ ereq \in EmailRequests
    /\ ecause = "none" /\ eresp = NoEmailResponse

MailFrame == UNCHANGED <<evariant, ereq>> /\ UNCHANGED <<calcVars, parseVars, flowVars, pdfVars, twoVars, drawVars>>

\* the handler up to its first await: the guard, then the first PDF
EmailPlanRequest ==
    /\ epc = "request"
    /\ IF emailGuard(evariant, ereq) # NoEmailResponse
       THEN epc' = "done" /\ ecause' = "missing" /\ eresp' = emailGuard(evariant, ereq)
       ELSE IF firstRenderThrows(evariant, ereq)
       THEN epc' = "done" /\ ecause' = "render" /\ eresp' = DeliveryFailed
       ELSE epc' = "buffer" /\ UNCHANGED <<ecause, eresp>>
    /\ MailFrame

\* toBuffer settles: the stream failed, or the buffer is there; then the second PDF,
\* if any, and the call of the mail service
PdfBuffered ==
    /\ epc = "buffer"
    /\ \/ epc' = "done" /\ ecause' = "buffer" /\ eresp' = DeliveryFailed
       \/ IF secondRender(evariant, ereq) /\ nutritionRenderThrows(ereq)
          THEN epc' = "done" /\ ecause' = "render" /\ eresp' = DeliveryFailed
          ELSE epc' = "send" /\ UNCHANGED <<ecause, eresp>>
    /\ MailFrame

\* the mail service settles
MailSent ==
    /\ epc = "send"
    /\ \/ epc' = "done" /\ ecause' = "send" /\ eresp' = DeliveryFailed
       \/ epc' = "done" /\ UNCHANGED ecause /\ eresp' = [status |-> 200, error |-> ""]
    /\ MailFrame

\* C18: the email endpoint reports the delivery error exactly when the mail send
\* fails; a failure before the send (missing email or plan, a PDF that cannot be
\* rendered) is reported as another kind of error.
C18_DeliveryErrorIffSendFails ==
    epc = "done" =>
        /\ eresp = DeliveryFailed <=> ecause = "send"
        /\ ecause \in {"missing", "render", "buffer"} => eresp.status >= 400

\* what holds instead: the delivery error is the answer to every failure but the
\* 400 of the earlier copies' guard
C18_DeliveryErrorOnAnyThrow ==
    epc = "done" =>
        /\ ecause = "none" <=> eresp.status = 200
        /\ eresp = DeliveryFailed <=>
              \/ ecause \in {"render", "buffer", "send"}
              \/ ecause = "missing" /\ evariant = "server"

(***************************************************************************)
(* Drawing one document (server.js:94-211): the workout section, the       *)
(* nutrition section and the three generators that combine them.  The plan *)
(* is the JSON the caller sent, any member of which can be missing, null   *)
(* or of another type; a TypeError leaves the generator at once.  A        *)
(* section is recorded when its heading is drawn, with the page it is on.  *)
(***************************************************************************)
JNull == [t |-> "null", v |-> <<>>]
JObj  == [t |-> "obj", v |-> <<>>]

\* x || y on JSON values: undefined and null are falsy; the strings, objects and
\* arrays of the inputs are truthy
truthy(x) == x.t \notin {"absent", "null"}

\* ---- inputs
R_Ingredient == [t |-> "obj", item |-> F_rice, grams |-> 150]
R_Macros     == [t |-> "obj", kcal |-> 500, protein_g |-> 40, carbs_g |-> 50, fat_g |-> 15]

R_Meal(macros, ingredients) ==
    [t |-> "obj", name |-> "Lunch", macros |-> macros, ingredients |-> ingredients]

R_GoodMeal == R_Meal(R_Macros, Arr(<<R_Ingredient>>))

R_Day(n, meals) == [t |-> "obj", day |-> n, total_kcal |-> 2400, meals |-> meals]

R_Meals ==
    { Absent, JNull, NonArray, JObj, Arr(<<>>), Arr(<<JNull>>), Arr(<<NonArray>>),
      Arr(<<R_GoodMeal, R_GoodMeal>>),
      Arr(<<R_Meal(Absent, Absent)>>), Arr(<<R_Meal(JNull, JNull)>>),
      Arr(<<R_Meal(NonArray, NonArray)>>),
      Arr(<<R_Meal(R_Macros, Arr(<<R_Ingredient, JNull>>))>>),
      Arr(<<R_Meal(R_Macros, Arr(<<NonArray>>))>>) }

R_DayEntries == {JNull, NonArray} \cup { R_Day(0, m) : m \in R_Meals }

\* longest array of malformed day entries
MaxRenderDays == 2

R_Summary(calories, meals_per_day) ==
    [t |-> "obj", v |-> <<>>, calories |-> calories, kcal |-> 0, meals_per_day |-> meals_per_day]

R_Guidelines(notes) == [t |-> "obj", v |-> <<>>, notes |-> notes]

R_GoodPlan ==
    [t |-> "obj", summary |-> R_Summary(2400, 4), guidelines |-> R_Guidelines(TRUE),
     day_plans |-> Arr([i \in 1..7 |-> R_Day(i, Arr(<<R_GoodMeal, R_GoodMeal>>))]),
     days |-> Absent,
     grocery_list |-> Arr(<<Item(F_chicken), Item(F_rice)>>),
     batch_prep |-> Arr(<<[t |-> "obj", day |-> Sunday, steps |-> Arr(<<OwnStep(1)>>)]>>)]

\* a well-formed plan, and the plans that differ from it in one member
RenderPlans ==
    { R_GoodPlan, [R_GoodPlan EXCEPT !.t = "null"] }
    \cup { [R_GoodPlan EXCEPT !.summary = s] :
              s \in {Absent, JNull, NonArray, R_Summary(0, 0)} }
    \cup { [R_GoodPlan EXCEPT !.guidelines = g] :
              g \in {Absent, JNull, NonArray, R_Guidelines(FALSE)} }
    \cup { [R_GoodPlan EXCEPT !.day_plans = d] : d \in {Absent, JNull, NonArray, JObj} }
    \cup { [R_GoodPlan EXCEPT !.day_plans = Absent, !.days = Arr(<<R_Day(1, Arr(<<R_GoodMeal>>))>>)] }
    \cup { [R_GoodPlan EXCEPT !.day_plans = Arr(d)] :
              d \in UNION { [1..n -> R_DayEntries] : n \in 0..MaxRenderDays } }
    \cup { [R_GoodPlan EXCEPT !.grocery_list = g] :
              g \in { Absent, JNull, NonArray, JObj, Arr(<<>>), Arr(<<NonArray>>),
                      Arr(<<Item(F_rice), JNull>>),
                      [t |-> "obj", v |-> <<>>, items |-> Arr(<<Item(F_oats)>>)] } }
    \cup { [R_GoodPlan EXCEPT !.batch_prep = b] :
              b \in { Absent, JNull, NonArray, JObj, Arr(<<>>), Arr(<<JNull>>),
                      Arr(<<NonArray>>),
                      Arr(<<[t |-> "obj", day |-> Sunday, steps |-> Absent]>>),
                      Arr(<<[t |-> "obj", day |-> Sunday, steps |-> NonArray]>>) } }

\* numbers of the weeks parseWorkoutPlanText returned
RenderWeekLists == { <<>>, <<1, 2>>, <<1, 2, 2, 1, 3, 5, 7>> }

Logos == {"present", "missing", "unreadable"}

\* ---- the document under construction
NoRender ==
    [pc |-> "idle", generator |-> "none", logo |-> "present", weeks |-> <<>>,
     plan |-> [R_GoodPlan EXCEPT !.t = "null"], page |-> 0, sections |-> <<>>]

DrawIdle == drawn = <<>> /\ render = NoRender

RenderInit ==
    \E g \in {"workout", "nutrition", "unified"} :
    \E l \in (IF g = "nutrition" THEN {"present"} ELSE Logos) :
    \E w \in (IF g = "nutrition" THEN {<<>>} ELSE RenderWeekLists) :
    \E p \in (IF g = "workout" THEN {[R_GoodPlan EXCEPT !.t = "null"]} ELSE RenderPlans) :
        render = [NoRender EXCEPT !.pc = "create", !.generator = g, !.logo = l,
                                  !.weeks = w, !.plan = p]

RenderFrame == UNCHANGED <<calcVars, parseVars, flowVars, pdfVars, twoVars, mailVars, drawn>>

\* one heading drawn on the current page
Section(kind, n, text) == [kind |-> kind, n |-> n, page |-> render.page, text |-> text]

\* the section is drawn on the current page; addPages new pages follow it
Draw(secs, addPages, nextPc) ==
    render' = [render EXCEPT !.sections = @ \o secs, !.page = @ + addPages, !.pc = nextPc]

\* createStyledDoc (lines 49-66): new PDFDocument, which opens page 1
createStyledDoc ==
    /\ render.pc = "create"
    /\ render' = [render EXCEPT !.page = 1,
                     !.pc = IF render.generator = "nutrition" THEN "ncover" ELSE "cover"]
    /\ RenderFrame

\* lines 95-101: title, greeting, the logo inside try/catch, addPage
WorkoutCover ==
    /\ render.pc = "cover"
    /\ Draw(<<Section("cover", 0, IF render.logo = "present" THEN "logo" ELSE "")>>, 1, "tips")
    /\ RenderFrame

\* lines 103-111
ProTips ==
    /\ render.pc = "tips"
    /\ Draw(<<Section("tips", 0, "")>>, 1, "weeks")
    /\ RenderFrame

\* lines 113-123: one heading per week of the slice, addPage after each
weekSections(ws) ==
    [i \in 1..Len(ws) |-> [kind |-> "week", n |-> ws[i], page |-> render.page + i - 1, text |-> ""]]

WeekPages ==
    /\ render.pc = "weeks"
    /\ Draw(weekSections(sliceWeeks(render.weeks)), Len(sliceWeeks(render.weeks)), "closing")
    /\ RenderFrame

\* lines 125-126, then the generator's next call (lines 195-196, 207-208)
StayConsistent ==
    /\ render.pc = "closing"
    /\ Draw(<<Section("closing", 0, "")>>, 0,
            IF render.generator = "unified" THEN "ncover" ELSE "number")
    /\ RenderFrame

\* lines 130-135: the members of the plan, each with its default
nPlanOf(plan) == IF plan.t = "null" THEN [R_GoodPlan EXCEPT !.summary = Absent,
                     !.guidelines = Absent, !.day_plans = Absent, !.grocery_list = Absent,
                     !.batch_prep = Absent]
                 ELSE plan
summaryOf(plan) ==
    IF truthy(nPlanOf(plan).summary) THEN nPlanOf(plan).summary ELSE JObj
guidelinesOf(plan) ==
    IF truthy(nPlanOf(plan).guidelines) THEN nPlanOf(plan).guidelines ELSE JObj
renderDaysOf(plan) ==
    IF truthy(nPlanOf(plan).day_plans) THEN nPlanOf(plan).day_plans
    ELSE IF truthy(nPlanOf(plan).days) THEN nPlanOf(plan).days ELSE Arr(<<>>)
groceryOf(plan) ==
    LET gl == nPlanOf(plan).grocery_list IN
    IF truthy(gl) /\ "items" \in DOMAIN gl /\ truthy(gl.items) THEN gl.items
    ELSE IF truthy(gl) THEN gl ELSE Arr(<<>>)
batchOf(plan) ==
    IF truthy(nPlanOf(plan).batch_prep) THEN nPlanOf(plan).batch_prep ELSE Arr(<<>>)

\* lines 137-140: addPage first, then the cover, then addPage
NutritionCover ==
    /\ render.pc = "ncover"
    /\ render' = [render EXCEPT
                    !.sections = Append(@, [kind |-> "nutrition_cover", n |-> 0,
                                            page |-> render.page + 1, text |-> ""]),
                    !.page = @ + 2, !.pc = "targets"]
    /\ RenderFrame

\* what a chip shows: the placeholder (an em dash) or a value
Dash == [dash |-> TRUE, value |-> 0]
Shown(n) == [dash |-> FALSE, value |-> n]

\* line 144: summary.calories || summary.kcal || dash
caloriesChip(s) ==
    IF "calories" \in DOMAIN s /\ s.calories # 0 THEN Shown(s.calories)
    ELSE IF "kcal" \in DOMAIN s /\ s.kcal # 0 THEN Shown(s.kcal) ELSE Dash

\* line 150: summary.meals_per_day ?? dash
mealsChip(s) ==
    IF "meals_per_day" \in DOMAIN s /\ s.meals_per_day # 0 THEN Shown(s.meals_per_day) ELSE Dash

\* lines 142-153
DailyTargets ==
    /\ render.pc = "targets"
    /\ Draw(<<Section("targets", 0, <<caloriesChip(summaryOf(render.plan)),
                                      mealsChip(summaryOf(render.plan))>>)>>, 1, "guidelines")
    /\ RenderFrame

\* lines 155-159
Guidelines ==
    /\ render.pc = "guidelines"
    /\ Draw(<<Section("guidelines", 0,
                      IF "notes" \in DOMAIN guidelinesOf(render.plan) /\ guidelinesOf(render.plan).notes
                      THEN "notes" ELSE "")>>, 1, "days")
    /\ RenderFrame

\* a forEach call on a value that is not an array: a string or an object has no
\* such method
noForEach(x) == x.t \in {"str", "obj"}

\* lines 169-172: i.grams of null
ingredientsThrow(x) ==
    noForEach(x) \/ (x.t = "arr" /\ \E k \in DOMAIN x.v : x.v[k].t = "null")

\* lines 166-174: m.macros of null; the ingredients of an object
mealThrows(m) == m.t = "null" \/ (m.t = "obj" /\ ingredientsThrow(m.ingredients))

mealsThrow(x) == noForEach(x) \/ (x.t = "arr" /\ \E k \in DOMAIN x.v : mealThrows(x.v[k]))

\* lines 161-176: d.total_kcal of null; the meals of an object
dayThrows(d) == d.t = "null" \/ (d.t = "obj" /\ mealsThrow(d.meals))

\* index of the first entry that makes the loop throw, 0 when none does
firstThrow(arr, throws(_)) ==
    IF arr.t = "arr" /\ \E k \in DOMAIN arr.v : throws(arr.v[k])
    THEN SetMin({k \in DOMAIN arr.v : throws(arr.v[k])}) ELSE 0

\* line 164: Day ${d.day || idx + 1}
dayNumber(d, k) == IF d.t = "obj" /\ d.day # 0 THEN d.day ELSE k

\* the headings of the day pages that get drawn: all of them, or those up to the
\* entry that throws, whose own heading is drawn unless the entry is null
daySections(arr, bad) ==
    LET last == IF bad = 0 THEN Len(arr.v)
                ELSE IF arr.v[bad].t = "null" THEN bad - 1 ELSE bad
    IN  [k \in 1..last |-> [kind |-> "day", n |-> dayNumber(arr.v[k], k),
                            page |-> render.page + k - 1, text |-> ""]]

\* lines 161-176: (Array.isArray(days) ? days : []).forEach, addPage after each day
DayPages ==
    /\ render.pc = "days"
    /\ LET days == IF renderDaysOf(render.plan).t = "arr" THEN renderDaysOf(render.plan) ELSE Arr(<<>>)
           bad  == firstThrow(days, dayThrows)
       IN  IF bad = 0 THEN Draw(daySections(days, 0), Len(days.v), "grocery")
           ELSE Draw(daySections(days, bad), bad - 1, "threw")
    /\ RenderFrame

entryThrows(e) == e.t = "null"

\* lines 178-184: it.item of null
GroceryList ==
    /\ render.pc = "grocery"
    /\ IF firstThrow(groceryOf(render.plan), entryThrows) = 0
       THEN Draw(<<Section("grocery", 0, "")>>, 1, "batch")
       ELSE Draw(<<Section("grocery", 0, "")>>, 0, "threw")
    /\ RenderFrame

\* lines 186-190: b.steps of null; then the generator's addPageNumbersAndEnd
BatchPrep ==
    /\ render.pc = "batch"
    /\ IF firstThrow(batchOf(render.plan), entryThrows) = 0
       THEN Draw(<<Section("batch", 0, "")>>, 0, "number")
       ELSE Draw(<<Section("batch", 0, "")>>, 0, "threw")
    /\ RenderFrame

\* addPageNumbersAndEnd (lines 68-78): the document is complete
EndDocument ==
    /\ render.pc = "number"
    /\ render' = [render EXCEPT !.pc = "ended"]
    /\ RenderFrame

kindsOf(secs) == [i \in 1..Len(secs) |-> secs[i].kind]
Repeat(x, n) == [i \in 1..n |-> x]
Min6(n) == IF n > 6 THEN 6 ELSE n

\* the order the code gives a unified document: the workout section whole, closing
\* page included, then the nutrition section; no table of contents
C25_ClosingBeforeNutrition ==
    (render.pc = "ended" /\ render.generator = "unified") =>
        kindsOf(render.sections) =
            <<"cover", "tips">> \o Repeat("week", Min6(Len(render.weeks))) \o <<"closing">>
            \o <<"nutrition_cover", "targets", "guidelines">>
            \o Repeat("day", Len(renderDaysOf(render.plan).v))
            \o <<"grocery", "batch">>

C25_Witness ==
    /\ render.pc = "ended" /\ render.generator = "unified"
    /\ Len(render.weeks) = 7 /\ render.plan = R_GoodPlan
    /\ Len(render.sections) = 21
    /\ render.sections[9].kind = "closing" /\ render.sections[21].kind = "batch"

\* C25: in a document drawn from both workout and nutrition data the sections come
\* in the order cover, table of contents (one entry per drawn week), tips, one page
\* per week, nutrition cover, daily targets, guidelines, one page per day, grocery
\* list, batch prep, and the closing page comes last.
C25_SectionOrder ==
    (render.pc = "ended" /\ render.generator = "unified") =>
        /\ kindsOf(render.sections) =
              <<"cover", "toc", "tips">> \o Repeat("week", Min6(Len(render.weeks)))
              \o <<"nutrition_cover", "targets", "guidelines">>
              \o Repeat("day", Len(renderDaysOf(render.plan).v))
              \o <<"grocery", "batch", "closing">>
        /\ \A i \in 1..Len(render.sections) :
              render.sections[i].kind = "toc" =>
                 render.sections[i].n = Min6(Len(render.weeks))
        /\ \A i, j \in 1..Len(render.sections) :
              (i < j /\ render.sections[j].kind \in {"week", "day"}) =>
                 render.sections[i].page < render.sections[j].page

\* the members of the plan the nutrition section reads without a guard
RenderThrows(plan) ==
    \/ firstThrow(IF renderDaysOf(plan).t = "arr" THEN renderDaysOf(plan) ELSE Arr(<<>>), dayThrows) # 0
    \/ firstThrow(groceryOf(plan), entryThrows) # 0
    \/ firstThrow(batchOf(plan), entryThrows) # 0

\* what the nutrition section tolerates: the plan itself, summary, guidelines,
\* day_plans, grocery_list or batch_prep missing, null or not an array, a day
\* without meals, a meal without macros or ingredients; and the workout section
\* never stops at the logo
C26_TopLevelTolerated ==
    /\ render.pc = "threw" => render.generator # "workout" /\ RenderThrows(render.plan)
    /\ (render.pc = "ended" /\ render.generator # "workout") =>
          \E i \in 1..Len(render.sections) :
             /\ render.sections[i].kind = "targets"
             /\ (summaryOf(render.plan) = JObj \/ summaryOf(render.plan).t = "str")
                   => render.sections[i].text = <<Dash, Dash>>

C26_Witness ==
    /\ render.pc = "ended" /\ render.generator = "unified" /\ render.logo = "unreadable"
    /\ render.plan.summary = JNull
    /\ \E i \in 1..Len(render.sections) :
          render.sections[i].kind = "targets" /\ render.sections[i].text = <<Dash, Dash>>

\* C26: drawing a nutrition plan never throws because of a missing or malformed
\* member (summary, guidelines, day_plans, a day entry, a day's meals, a meal's
\* macros or ingredients, grocery_list, a grocery entry, batch_prep): the section
\* completes; and a missing logo does not stop the workout section.
C26_NeverThrows ==
    render.pc # "threw"

(***************************************************************************)
(* Two requests to POST /api/nutrition in flight (server.js:495-562).      *)
(* Node runs one handler at a time and turns to another at an await: the   *)
(* flow variables are the locals of the handler that runs, other holds the *)
(* locals of the suspended one.  The bindings of the module (KW, the price *)
(* ids, the clients) are shared and no handler assigns them.               *)
(***************************************************************************)
Locals ==
    [pc |-> pc, endpoint |-> endpoint, req |-> req, session |-> session,
     profile |-> profile, targets |-> targets, calls |-> calls, log |-> log,
     completion |-> completion, planJson |-> planJson, finalPlan |-> finalPlan,
     response |-> response]

NoOther ==
    [pc |-> "idle", endpoint |-> "nutrition",
     req |-> [valid |-> FALSE, sessionId |-> "none", meals_per_day |-> 0],
     session |-> NoSession, profile |-> NoProfile, targets |-> NoTargets, calls |-> 0,
     log |-> <<>>, completion |-> NoCompletion, planJson |-> NullPlan,
     finalPlan |-> NullPlan, response |-> NoResponse]

AuxIdle == PdfIdle /\ MailIdle /\ other = NoOther /\ DrawIdle

\* the requests, sessions, completions and repair outcomes of the two-request runs
TwoRequests ==
    [valid : {TRUE}, sessionId : {"cs_test"}, meals_per_day : {MinMeals, MinMeals + 2}]

TwoSessions == [exists : {TRUE}, payment_status : {"paid"}, planType : {"workout", "pro"}]

TwoCompletions(mealsPerDay) ==
    { [text |-> <<"{", "MEMBERS", "}">>, members |-> PlanOf(Arr(FullWeek(mealsPerDay)), Absent)],
      [text |-> <<"{", "MEMBERS", "}">>,
       members |-> PlanOf(Arr(SubSeq(FullWeek(mealsPerDay), 1, 3)), Absent)],
      [text |-> <<"PROSE">>, members |-> NullPlan] }

TwoOutcomes(mealsPerDay) ==
    { [kind |-> "reject", value |-> NullPlan],
      [kind |-> "value", value |-> PlanOf(Arr(FullWeek(mealsPerDay)), Absent)] }

\* the request's own meals_per_day
OwnMeals(r) == IF r.meals_per_day = 0 THEN DefaultMeals ELSE r.meals_per_day

InitTwo ==
    /\ pc = "request" /\ deployed = "server" /\ endpoint = "nutrition" /\ priceEnv = "set"
    /\ req \in TwoRequests /\ session \in TwoSessions /\ profile = ScenarioProfile
    /\ cpc = "idle" /\ targets = NoTargets
    /\ calls = 0 /\ log = <<>> /\ completion = NoCompletion
    /\ planJson = NullPlan /\ finalPlan = NullPlan /\ response = NoResponse
    /\ \E r \in TwoRequests, se \in TwoSessions :
          other = [NoOther EXCEPT !.pc = "request", !.req = r, !.session = se,
                                  !.profile = ScenarioProfile]
    /\ ParseIdle /\ PdfIdle /\ MailIdle /\ DrawIdle

\* the running handler is at an await or has answered; the event loop turns to the
\* other handler
Resume ==
    /\ other.pc # "idle"
    /\ other' = Locals
    /\ pc' = other.pc /\ endpoint' = other.endpoint /\ req' = other.req
    /\ session' = other.session /\ profile' = other.profile /\ targets' = other.targets
    /\ calls' = other.calls /\ log' = other.log /\ completion' = other.completion
    /\ planJson' = other.planJson /\ finalPlan' = other.finalPlan
    /\ response' = other.response
    /\ UNCHANGED <<deployed, priceEnv, cpc>>
    /\ UNCHANGED <<parseVars, pdfVars, mailVars, drawVars>>

CompletionReturnedTwo == CompletionReturnedFrom(TwoCompletions(OwnMeals(req)))
RepairReturnedTwo == RepairReturnedFrom(TwoOutcomes(OwnMeals(req)))

\* what a request answers when it is served alone, restated as a function of what it
\* receives: the body, the session, the completion c and the repair outcome o
SoloAnswer(b, mpd, tg) ==
    IF ~b.ok \/ b.plan.summary.t = "str" THEN Reply(500, "Nutrition generation error")
    ELSE [Reply(200, "") EXCEPT !.targets = tg.t, !.plan = summaryStep(b.plan, mpd)]

SoloRepaired(e, mpd, tg, o) ==
    IF o.kind = "value" THEN SoloAnswer(ensureBatchPrep(o.value, mpd), mpd, tg)
    ELSE IF ~e.ok THEN Reply(500, "Nutrition generation error")
    ELSE SoloAnswer(ensureBatchPrep(e.plan, mpd), mpd, tg)

SoloParsed(c, r, pj, mpd, tg, outcomes) ==
    IF ~r.ok
    THEN { [Reply(502, "Model returned invalid JSON") EXCEPT !.raw = c.text, !.targets = tg.t] }
    ELSE IF needsRepair(pj, mpd) = "throw" THEN { Reply(500, "Nutrition generation error") }
    ELSE IF needsRepair(pj, mpd) = "true"
    THEN { SoloRepaired(expandProgrammatically(pj, mpd), mpd, tg, o) : o \in outcomes }
    ELSE { SoloAnswer(ensureBatchPrep(pj, mpd), mpd, tg) }

SoloResponses(l, env) ==
    IF ~l.req.valid THEN { Reply(400, "Invalid nutrition input") }
    ELSE IF l.req.sessionId = "none" THEN { Reply(401, "Missing sessionId") }
    ELSE IF ~l.session.exists THEN { Reply(500, "Nutrition generation error") }
    ELSE IF l.session.payment_status # "paid" THEN { Reply(402, "Payment required") }
    ELSE IF \A i \in DOMAIN LineItems(l.session.planType, env) :
               /\ LineItems(l.session.planType, env)[i].price_id # PRICE_PRO(env)
               /\ LineItems(l.session.planType, env)[i].amount_total # ProAmount
               /\ LineItems(l.session.planType, env)[i].amount_subtotal # ProAmount
    THEN { Reply(403, "Nutrition is available with the Pro plan") }
    ELSE IF l.completion = NoCompletion THEN { Reply(500, "Nutrition generation error") }
    ELSE SoloParsed(l.completion, parsePlan(l.completion.text),
                    ValueOf(parsePlan(l.completion.text).kind, l.completion.members),
                    OwnMeals(l.req), computeTargets(l.profile), TwoOutcomes(OwnMeals(l.req)))

\* C17: of two nutrition requests whose handlers interleave, each gets the response
\* it would get alone: the response of a finished request is one that its own body,
\* session, completion and repair outcome determine, whatever the other request is
\* and wherever its handler stands.
C17_RequestsIndependent ==
    /\ pc = "done" => response \in SoloResponses(Locals, priceEnv)
    /\ other.pc = "done" => other.response \in SoloResponses(other, priceEnv)

C17_Witness ==
    /\ pc = "done" /\ other.pc = "done"
    /\ response.status = 200 /\ other.response.status = 200
    /\ OwnMeals(req) # OwnMeals(other.req)
    /\ Has("programmatic") /\ \A i \in DOMAIN other.log : other.log[i] # "repair_call"
    /\ response # other.response
    /\ response \in SoloResponses(Locals, priceEnv)

vars == <<cpc, profile, targets,
          ppc, pvariant, planText, lines, idx, weeks, currentWeek, currentDay, lastLine,
          pc, deployed, priceEnv, endpoint, req, session, calls, log, completion, planJson,
          finalPlan, response,
          kpc, generator, pdf, pending, spills, other,
          epc, evariant, ereq, ecause, eresp, drawn, render>>

InitCalc == CalcInit /\ ParseIdle /\ FlowIdle /\ AuxIdle
NextCalc == Compute
SpecCalc == InitCalc /\ [][NextCalc]_vars

InitParse == ParseInit /\ CalcIdle /\ FlowIdle /\ AuxIdle
NextParse == ParseStart \/ ParseLine \/ ParseReturn \/ RenderWeeks
SpecParse == InitParse /\ [][NextParse]_vars

Init == FlowInit /\ ParseIdle /\ AuxIdle
Next ==
    \/ NutritionRequest \/ SessionRetrieved \/ LineItemsListed
    \/ CompletionReturned \/ RepairReturned
    \/ NutritionRequest001 \/ CompletionReturned001
    \/ GeneratePlanRequest \/ WorkoutSessionRetrieved \/ WorkoutCompletionReturned
Spec == Init /\ [][Next]_vars

InitPdf == AuxIdle /\ CalcIdle /\ ParseIdle /\ FlowIdle
NextPdf == GeneratePdf \/ AddPage \/ ContinueOnNewPage \/ NumberAndEnd
SpecPdf == InitPdf /\ [][NextPdf]_vars

InitEmail == MailInit /\ CalcIdle /\ ParseIdle /\ FlowIdle /\ PdfIdle /\ other = NoOther /\ DrawIdle
NextEmail == EmailPlanRequest \/ PdfBuffered \/ MailSent
SpecEmail == InitEmail /\ [][NextEmail]_vars

InitRender ==
    /\ RenderInit /\ drawn = <<>> /\ CalcIdle /\ ParseIdle /\ FlowIdle /\ PdfIdle /\ MailIdle
    /\ other = NoOther
NextRender ==
    \/ createStyledDoc \/ WorkoutCover \/ ProTips \/ WeekPages \/ StayConsistent
    \/ NutritionCover \/ DailyTargets \/ Guidelines \/ DayPages \/ GroceryList \/ BatchPrep
    \/ EndDocument
SpecRender == InitRender /\ [][NextRender]_vars

NextTwo ==
    \/ NutritionRequest \/ SessionRetrieved \/ LineItemsListed
    \/ CompletionReturnedTwo \/ RepairReturnedTwo \/ Resume
SpecTwo == InitTwo /\ [][NextTwo]_vars

====
